---- MODULE Spec2Model ----
(***************************************************************************)
(* Model of the NOVA Protocol market-data gateway: the in-memory TTL Cache *)
(* (src/utils/cache.js) and the provider-fallback resolver of the          *)
(* MarketDataService (src/services/marketData/index.js) with its two       *)
(* providers (services/marketData/providers).                              *)
(* The HTTP layer is present with its request validation middleware        *)
(* (src/middleware/validator.js) and its error handler                     *)
(* (src/middleware/errorHandler.js).                                       *)
(*                                                                         *)
(* JavaScript values that the program treats as opaque (payloads, keys)    *)
(* are modelled as strings holding their printed form: "undefined", "NaN", *)
(* "0", "3000", "[]" ...; Truthy gives their JavaScript truthiness.        *)
(* Numbers the code computes with (times, ttls, counters) are integers; an *)
(* omitted numeric argument is 0, which `x || default` treats like         *)
(* undefined.                                                              *)
(***************************************************************************)
EXTENDS Integers, Sequences, FiniteSets, TLC

VARIABLES
  now,        \* Date.now(), in milliseconds
  cache,      \* a Cache instance driven directly by its public methods
  last,       \* the last Cache method call on `cache`: name, arguments, result
  nHit,       \* number of get() calls on `cache` that returned the stored value
  nMiss,      \* number of get() calls on `cache` that reported absent
  service,    \* the MarketDataService singleton (constructor fields)
  caches,     \* priceCache, marketDataCache, historicalDataCache
  calls,      \* the resolve calls (getPrice/getHistoricalPrices/getMarketData)
  elapses,    \* number of clock advances seen by the service
  validation, \* one run of a validateBody/validateParams/validateQuery middleware
  response,   \* one run of the errorHandler middleware
  cacheService, \* the cacheService module: its cache object, a getOrSet call
  batch,      \* a getPrices / getMarketsData call
  invalidated, \* the invalidateCache calls made on the service
  limiter     \* the rateLimiter middleware: ipRequests, its last request

vars == <<now, cache, last, nHit, nMiss, service, caches, calls, elapses,
          validation, response, cacheService, batch, invalidated, limiter>>

(***************************************************************************)
(* Bounds of the model                                                     *)
(***************************************************************************)
MaxTime == 2        \* the clock of the Cache specification runs 0..MaxTime
Capacity == 2       \* options.max of the Cache under test
MaxOps == 3         \* method calls made on the Cache under test
MaxServiceOps == 3  \* calls made on the cacheService module
MaxServiceWaits == 2 \* clock advances seen by the cacheService module
MaxBatches == 2     \* getPrices / getMarketsData calls made
MaxInvalidations == 1 \* invalidateCache calls made
WindowMs == 2       \* api.rateLimit.windowMs of the rate limiter
RateMax == 2        \* api.rateLimit.max of the rate limiter
MaxRequests == 4    \* requests handled by the rate limiter
MaxClock == 3       \* the clock of the rate limiter runs 0..MaxClock

(***************************************************************************)
(* JavaScript values                                                       *)
(***************************************************************************)
Undefined == "undefined"

Falsy == {"undefined", "null", "NaN", "0", "", "false"}

Truthy(v) == v \notin Falsy

\* a || b on numbers
NumOr(a, b) == IF a # 0 THEN a ELSE b

(***************************************************************************)
(* Cache (src/utils/cache.js)                                              *)
(***************************************************************************)
DefaultTtl == 60000
DefaultMax == 1000

NewStats == [hits |-> 0, misses |-> 0, sets |-> 0, deletes |-> 0]

\* constructor(options): store is a Map, kept here as the sequence of its
\* entries in insertion order (the order Map iteration uses)
NewCache(options) ==
  [store |-> << >>,
   ttl   |-> NumOr(options.ttl, DefaultTtl),
   max   |-> NumOr(options.max, DefaultMax),
   stats |-> NewStats]

\* Map.prototype.has / get / delete / set on the entry sequence
MapHas(store, key) == \E i \in 1..Len(store) : store[i].key = key

MapGet(store, key) == store[CHOOSE i \in 1..Len(store) : store[i].key = key]

MapDelete(store, key) == SelectSeq(store, LAMBDA e : e.key # key)

MapSet(store, key, entry) ==
  IF MapHas(store, key)
    THEN [i \in 1..Len(store) |-> IF store[i].key = key THEN entry ELSE store[i]]
    ELSE Append(store, entry)

MapKeys(store) == {store[i].key : i \in 1..Len(store)}

\* the scan of set(): for (const [k, entry] of store.entries())
\*   if (entry.timestamp < oldestTime) { oldestTime = ...; oldestKey = k }
RECURSIVE ScanOldest(_, _, _)
ScanOldest(store, i, acc) ==
  IF i > Len(store) THEN acc
  ELSE IF store[i].timestamp < acc.oldestTime
    THEN ScanOldest(store, i + 1,
           [isNull |-> FALSE, oldestKey |-> store[i].key,
            oldestTime |-> store[i].timestamp])
    ELSE ScanOldest(store, i + 1, acc)

\* the eviction block of set(): oldestKey = null, oldestTime = Date.now()
EvictOldest(c, t) ==
  IF Len(c.store) >= c.max
    THEN LET o == ScanOldest(c.store, 1,
                    [isNull |-> TRUE, oldestKey |-> "", oldestTime |-> t])
         IN  IF ~o.isNull /\ o.oldestKey # ""       \* if (oldestKey)
               THEN MapDelete(c.store, o.oldestKey)
               ELSE c.store
    ELSE c.store

\* set(key, value, ttl) at time t
CacheSet(c, key, value, ttl, t) ==
  [cache |-> [c EXCEPT
      !.store = MapSet(EvictOldest(c, t), key,
                  [key |-> key, value |-> value, timestamp |-> t,
                   expiry |-> t + NumOr(ttl, c.ttl)]),
      !.stats.sets = @ + 1],
   ret |-> "true"]

\* get(key) without the expiry test
CacheGetNeverExpires(c, key, t) ==
  IF ~MapHas(c.store, key)
    THEN [cache |-> [c EXCEPT !.stats.misses = @ + 1], ret |-> Undefined]
    ELSE [cache |-> [c EXCEPT !.stats.hits = @ + 1],
          ret |-> MapGet(c.store, key).value]

\* get(key) that does not count the miss when it removes an expired entry
CacheGetExpiredUncounted(c, key, t) ==
  IF ~MapHas(c.store, key)
    THEN [cache |-> [c EXCEPT !.stats.misses = @ + 1], ret |-> Undefined]
  ELSE IF t > MapGet(c.store, key).expiry
    THEN [cache |-> [c EXCEPT !.store = MapDelete(c.store, key)],
          ret |-> Undefined]
  ELSE [cache |-> [c EXCEPT !.stats.hits = @ + 1],
        ret |-> MapGet(c.store, key).value]

\* get(key) at time t
CacheGet(c, key, t) ==
  IF ~MapHas(c.store, key)
    THEN [cache |-> [c EXCEPT !.stats.misses = @ + 1], ret |-> Undefined]
  ELSE IF t > MapGet(c.store, key).expiry
    THEN [cache |-> [c EXCEPT !.store = MapDelete(c.store, key),
                              !.stats.misses = @ + 1],
          ret |-> Undefined]
  ELSE [cache |-> [c EXCEPT !.stats.hits = @ + 1],
        ret |-> MapGet(c.store, key).value]

\* has(key) without the expiry test
CacheHasNeverExpires(c, key, t) ==
  IF ~MapHas(c.store, key)
    THEN [cache |-> c, ret |-> "false"]
    ELSE [cache |-> c, ret |-> "true"]

\* has(key) at time t
CacheHas(c, key, t) ==
  IF ~MapHas(c.store, key)
    THEN [cache |-> c, ret |-> "false"]
  ELSE IF t > MapGet(c.store, key).expiry
    THEN [cache |-> [c EXCEPT !.store = MapDelete(c.store, key)], ret |-> "false"]
  ELSE [cache |-> c, ret |-> "true"]

\* del(key) that reports true whether or not the key was stored
CacheDelAlwaysTrue(c, key) ==
  [cache |-> [c EXCEPT !.store = MapDelete(c.store, key),
                       !.stats.deletes = @ + 1],
   ret |-> "true"]

\* del(key)
CacheDel(c, key) ==
  IF MapHas(c.store, key)
    THEN [cache |-> [c EXCEPT !.store = MapDelete(c.store, key),
                              !.stats.deletes = @ + 1],
          ret |-> "true"]
    ELSE [cache |-> c, ret |-> "false"]

\* clear(): this.store.clear(); this.stats.deletes += this.store.size
CacheClear(c) ==
  LET cleared == << >>
  IN  [cache |-> [c EXCEPT !.store = cleared,
                           !.stats.deletes = @ + Len(cleared)],
       ret |-> Undefined]

\* prune() that also removes the entries expiring at this very instant
CachePruneAtExpiry(c, t) ==
  LET kept  == SelectSeq(c.store, LAMBDA e : ~(t >= e.expiry))
      count == Len(c.store) - Len(kept)
  IN  [cache |-> [c EXCEPT !.store = kept,
                           !.stats.deletes = IF count > 0 THEN @ + count ELSE @],
       ret |-> count]

\* prune() at time t
CachePrune(c, t) ==
  LET kept  == SelectSeq(c.store, LAMBDA e : ~(t > e.expiry))
      count == Len(c.store) - Len(kept)
  IN  [cache |-> [c EXCEPT !.store = kept,
                           !.stats.deletes = IF count > 0 THEN @ + count ELSE @],
       ret |-> count]

(***************************************************************************)
(* getStats(): hitRate = hits / (hits + misses) || 0.  A JavaScript number *)
(* is NaN, Infinity or a ratio kept in lowest terms.                       *)
(***************************************************************************)
RECURSIVE Gcd(_, _)
Gcd(a, b) == IF b = 0 THEN a ELSE Gcd(b, a % b)

Ratio(a, b) == [kind |-> "ratio", num |-> a \div Gcd(a, b), den |-> b \div Gcd(a, b)]

NaN == [kind |-> "NaN", num |-> 0, den |-> 0]

Infinity == [kind |-> "Infinity", num |-> 1, den |-> 0]

Zero == Ratio(0, 1)

\* a / b for non-negative integers a, b
NumDiv(a, b) ==
  IF b = 0 THEN (IF a = 0 THEN NaN ELSE Infinity) ELSE Ratio(a, b)

\* the quotient without `|| 0`
OrZeroMissing(x) == x

\* x || 0 : NaN and 0 are falsy
OrZero(x) == IF x = NaN \/ x = Zero THEN Zero ELSE x

GetStats(c) ==
  [hits |-> c.stats.hits, misses |-> c.stats.misses, sets |-> c.stats.sets,
   deletes |-> c.stats.deletes, size |-> Len(c.store),
   hitRate |-> OrZero(NumDiv(c.stats.hits, c.stats.hits + c.stats.misses))]

(***************************************************************************)
(* The Cache driven by its public methods                                  *)
(***************************************************************************)
Keys == {"btc", "eth", "sol"}       \* keys passed to the Cache under test

Values == {"0", "50000"}            \* values passed to set()

TtlArgs == {-1, 0, 1}               \* ttl argument of set(); 0 = omitted

OptTtl == 2                         \* options.ttl of the Cache under test

\* n counts the calls made so far; value, ttl and the time `at` of the call
\* are those of a set(); a get() or has() that directly follows a set() of
\* the same key keeps that set()'s ttl and time; used[k] is the number of the
\* last call that used key k, a set(k) or a get(k) that returned the stored
\* value (0: never used)
NoCall == [op |-> "none", key |-> "", value |-> Undefined, ttl |-> 0,
           ret |-> Undefined, count |-> 0, at |-> 0, n |-> 0,
           used |-> [k \in Keys |-> 0]]

Called(op, key, ret, count) ==
  [op |-> op, key |-> key, value |-> Undefined, ttl |-> 0,
   ret |-> ret, count |-> count, at |-> 0, n |-> last.n + 1,
   used |-> last.used]

\* the call before this one was set(key, ...)
AfterSetOf(key) == last.op = "set" /\ last.key = key

\* what get(key) has to report at time t: the entry is stored and not expired
Fresh(c, key, t) == MapHas(c.store, key) /\ t <= MapGet(c.store, key).expiry

SetCall(key, value, ttl) ==
  /\ LET r == CacheSet(cache, key, value, ttl, now)
     IN  /\ cache' = r.cache
         /\ last' = [Called("set", key, r.ret, 0) EXCEPT
                       !.value = value, !.ttl = ttl, !.at = now,
                       !.used[key] = last.n + 1]
  /\ UNCHANGED <<now, nHit, nMiss, service, caches, calls, elapses, validation, response,
                 cacheService, batch, invalidated, limiter>>

DoSet(key, value, ttl) == last.n < MaxOps /\ SetCall(key, value, ttl)

GetCall(key) ==
  /\ LET r == CacheGet(cache, key, now)
     IN  /\ cache' = r.cache
         /\ last' = [Called("get", key, r.ret, 0) EXCEPT
                       !.ttl = IF AfterSetOf(key) THEN last.ttl ELSE 0,
                       !.at  = IF AfterSetOf(key) THEN last.at ELSE 0,
                       !.used[key] = IF Fresh(cache, key, now)
                                       THEN last.n + 1 ELSE @]
  /\ IF Fresh(cache, key, now)
       THEN nHit' = nHit + 1 /\ nMiss' = nMiss
       ELSE nMiss' = nMiss + 1 /\ nHit' = nHit
  /\ UNCHANGED <<now, service, caches, calls, elapses, validation, response,
                 cacheService, batch, invalidated, limiter>>

DoGet(key) == last.n < MaxOps /\ GetCall(key)

\* a workload of set(key, value) with the default ttl and get(key) only
MaxLruOps == 4      \* method calls made in that workload

LruSet(key) == last.n < MaxLruOps /\ SetCall(key, "50000", 0)

LruGet(key) == last.n < MaxLruOps /\ GetCall(key)

DoHas(key) ==
  /\ last.n < MaxOps
  /\ LET r == CacheHas(cache, key, now)
     IN  /\ cache' = r.cache
         /\ last' = [Called("has", key, r.ret, 0) EXCEPT
                       !.ttl = IF AfterSetOf(key) THEN last.ttl ELSE 0,
                       !.at  = IF AfterSetOf(key) THEN last.at ELSE 0]
  /\ UNCHANGED <<now, nHit, nMiss, service, caches, calls, elapses, validation, response,
                 cacheService, batch, invalidated, limiter>>

DoDel(key) ==
  /\ last.n < MaxOps
  /\ LET r == CacheDel(cache, key)
     IN  /\ cache' = r.cache
         /\ last' = Called("del", key, r.ret, 0)
  /\ UNCHANGED <<now, nHit, nMiss, service, caches, calls, elapses, validation, response,
                 cacheService, batch, invalidated, limiter>>

DoClear ==
  /\ last.n < MaxOps
  /\ LET r == CacheClear(cache)
     IN  /\ cache' = r.cache
         /\ last' = Called("clear", "", r.ret, 0)
  /\ UNCHANGED <<now, nHit, nMiss, service, caches, calls, elapses, validation, response,
                 cacheService, batch, invalidated, limiter>>

DoPrune ==
  /\ last.n < MaxOps
  /\ LET r == CachePrune(cache, now)
     IN  /\ cache' = r.cache
         /\ last' = Called("prune", "", Undefined, r.ret)
  /\ UNCHANGED <<now, nHit, nMiss, service, caches, calls, elapses, validation, response,
                 cacheService, batch, invalidated, limiter>>

\* the clock advances between calls
Tick ==
  /\ now < MaxTime
  /\ now' = now + 1
  /\ UNCHANGED <<cache, last, nHit, nMiss, service, caches, calls, elapses, validation, response,
                 cacheService, batch, invalidated, limiter>>

(***************************************************************************)
(* Errors (src/utils/errors.js).  A message is the sequence of its words;  *)
(* ref names the object: two errors are the same object iff all fields,    *)
(* ref included, agree.                                                    *)
(***************************************************************************)
NoError == [ref |-> "none", message |-> << >>, statusCode |-> 0, code |-> ""]

\* new AppError(message, statusCode) ; code defaults to 'INTERNAL_ERROR'
AppError(ref, message, statusCode) ==
  [ref |-> ref, message |-> message, statusCode |-> statusCode,
   code |-> "INTERNAL_ERROR"]

\* String.prototype.includes on word sequences
Includes(msg, part) ==
  \E i \in 0..(Len(msg) - Len(part)) :
    \A j \in 1..Len(part) : msg[i + j] = part[j]

(***************************************************************************)
(* Configuration (src/utils/config.js)                                     *)
(***************************************************************************)
\* get(path, defaultValue): the default only when the value is undefined
GetConfig(value, defaultValue) == IF value = Undefined THEN defaultValue ELSE value

(***************************************************************************)
(* Providers (services/marketData/providers)                               *)
(***************************************************************************)
Null == "null"

NetErr == "network error"     \* the axios request itself rejects

Kinds == {"price", "historical", "marketData"}

\* the words `price` / `historical prices` / `market data` of the providers'
\* messages `Failed to get ... for ${symbol}`
ProviderNoun(kind) ==
  CASE kind = "price"      -> <<"price">>
    [] kind = "historical" -> <<"historical", "prices">>
    [] kind = "marketData" -> <<"market", "data">>

\* the catch block of every provider method: whatever went wrong is replaced
\* by new AppError(`Failed to get ... for ${symbol}`, 500)
ProviderError(ref, kind, symbol) ==
  AppError(ref, <<"Failed", "to", "get">> \o ProviderNoun(kind) \o <<"for", symbol>>, 500)

Returned(v) == [ok |-> TRUE, value |-> v, error |-> NoError]

Threw(e) == [ok |-> FALSE, value |-> Undefined, error |-> e]

NoOutcome == [ok |-> FALSE, value |-> Undefined, error |-> NoError]

\* parseFloat on the price strings of the Binance API
ParseFloat(str) ==
  CASE str = "'0.00000000'" -> "0"
    [] str = "'2999.5'"     -> "2999.5"
    [] OTHER                -> "NaN"

\* CoinGeckoProvider: resp is response.data[id].usd, response.data.prices
\* mapped to {timestamp, price} objects, or response.data.market_data
CoinGeckoCall(ref, kind, symbol, resp) ==
  IF resp = NetErr \/ ~Truthy(resp)
    THEN Threw(ProviderError(ref, kind, symbol))
  ELSE CASE kind = "price"      -> Returned(resp)
         [] kind = "historical" ->
              Returned(IF resp = "[[1,3000]]" THEN "[{timestamp:1,price:3000}]" ELSE "[]")
         [] kind = "marketData" -> Returned("{price:3000,marketCap:9}")

\* BinanceProvider: resp is response.data.price, response.data (klines) or
\* response.data (24hr ticker)
BinanceCall(ref, kind, symbol, resp) ==
  IF resp = NetErr \/ ~Truthy(resp)
    THEN Threw(ProviderError(ref, kind, symbol))
  ELSE CASE kind = "price"      -> Returned(ParseFloat(resp))
         [] kind = "historical" ->
              Returned(IF resp = "[[1,0,0,0,'2999.5']]" THEN "[{timestamp:1,price:2999.5}]" ELSE "[]")
         [] kind = "marketData" -> Returned("{price:2999.5,volume:7}")

\* what the remote APIs may answer
Responses(provider, kind) ==
  {NetErr, Undefined} \cup
  (CASE provider = "CoinGeckoProvider" /\ kind = "price"      -> {"0", "3000"}
     [] provider = "CoinGeckoProvider" /\ kind = "historical" -> {"[[1,3000]]"}
     [] provider = "CoinGeckoProvider" /\ kind = "marketData" -> {"{market_data}"}
     [] provider = "BinanceProvider" /\ kind = "price"        -> {"'0.00000000'", "'2999.5'"}
     [] provider = "BinanceProvider" /\ kind = "historical"   -> {"[]"}
     [] provider = "BinanceProvider" /\ kind = "marketData"   -> {"{lastPrice}"})

ProviderCall(provider, ref, kind, symbol, resp) ==
  IF provider = "BinanceProvider"
    THEN BinanceCall(ref, kind, symbol, resp)
    ELSE CoinGeckoCall(ref, kind, symbol, resp)

\* ProviderFactory.getProvider(provider): switch (provider.toLowerCase())
GetProvider(provider) ==
  CASE provider \in {"coinGecko", "coingecko", "CoinGecko"} -> "CoinGeckoProvider"
    [] provider \in {"binance", "Binance"}                  -> "BinanceProvider"
    [] OTHER                                                -> "CoinGeckoProvider"

(***************************************************************************)
(* MarketDataService (src/services/marketData/index.js)                    *)
(***************************************************************************)
NumCalls == 2        \* resolve calls that may be in flight together
MaxResolves == 2     \* resolve calls started in a behaviour
MaxElapses == 1      \* clock advances in a behaviour of the service

CallIds == 1..NumCalls

PriceTtl == 300000
PriceMax == 100
MarketDataTtl == 900000
MarketDataMax == 50
HistoricalTtl == 3600000
HistoricalMax == 30

\* the three module-level caches
NewCaches ==
  [price      |-> NewCache([ttl |-> PriceTtl, max |-> PriceMax]),
   marketData |-> NewCache([ttl |-> MarketDataTtl, max |-> MarketDataMax]),
   historical |-> NewCache([ttl |-> HistoricalTtl, max |-> HistoricalMax])]

\* constructor(): cfg holds config.marketData.defaultProvider and
\* config.marketData.fallbackProvider (undefined when the key is not set)
NewService(cfg) ==
  LET defaultProvider  == GetConfig(cfg.defaultProvider, "coinGecko")
      fallbackProvider == GetConfig(cfg.fallbackProvider, "binance")
  IN  [defaultProvider  |-> defaultProvider,
       fallbackProvider |-> fallbackProvider,
       primaryProvider  |-> GetProvider(defaultProvider),
       fallbackProviderInstance |->
         IF Truthy(fallbackProvider) THEN GetProvider(fallbackProvider) ELSE Null]

Symbols == {"BTC", "eth"}

\* String.prototype.toLowerCase on the symbols
ToLowerCase(symbol) ==
  CASE symbol \in {"BTC", "btc"} -> "btc"
    [] symbol \in {"ETH", "eth"} -> "eth"

Timeframes == {"30d"}             \* timeframes the callers ask for

NoTimeframe == ""                 \* getPrice, getMarketData take none

\* const cacheKey = `price:${symbol.toLowerCase()}` and its two siblings
CacheKey(kind, symbol, timeframe) ==
  CASE kind = "price"      -> "price:" \o ToLowerCase(symbol)
    [] kind = "marketData" -> "marketData:" \o ToLowerCase(symbol)
    [] kind = "historical" -> "historical:" \o ToLowerCase(symbol) \o ":" \o timeframe

\* the words `price` / `historical data` / `market data` of
\* `Failed to get ... for ${symbol} from any provider`
ServiceNoun(kind) ==
  CASE kind = "price"      -> <<"price">>
    [] kind = "historical" -> <<"historical", "data">>
    [] kind = "marketData" -> <<"market", "data">>

\* throw new AppError(`Failed to get ... for ${symbol} from any provider`, 500)
AllFailedError(kind, symbol) ==
  AppError("service", <<"Failed", "to", "get">> \o ServiceNoun(kind)
                        \o <<"for", symbol, "from", "any", "provider">>, 500)

\* if (cachedPrice) : the test that decides between hit and miss
IsHit(cached) == Truthy(cached)

IdleCall ==
  [pc |-> "idle", kind |-> "price", symbol |-> "BTC", timeframe |-> NoTimeframe,
   cacheKey |-> "", cached |-> Undefined, result |-> Undefined, error |-> NoError,
   primaryCalls |-> 0, fallbackCalls |-> 0,
   primary |-> NoOutcome, fallback |-> NoOutcome,
   alone |-> TRUE]

Finished(cl) == cl.pc \in {"idle", "returned", "rejected"}

Min(S) == CHOOSE x \in S : \A y \in S : x <= y

\* call ids only name the calls: a new call takes the first slot never used,
\* or else the first slot whose call has finished
NextSlot ==
  LET idle == {c \in CallIds : calls[c].pc = "idle"}
      done == {c \in CallIds : Finished(calls[c])}
  IN  IF idle # {} THEN Min(idle) ELSE IF done # {} THEN Min(done) ELSE 0

Resolves == caches.price.stats.hits + caches.price.stats.misses
          + caches.marketData.stats.hits + caches.marketData.stats.misses
          + caches.historical.stats.hits + caches.historical.stats.misses

\* a resolve that joins the provider call of a call already in flight for the
\* same key instead of making its own
ResolveCoalescing(c, kind, symbol, timeframe) ==
  /\ Finished(calls[c])
  /\ c = NextSlot
  /\ Resolves < MaxResolves
  /\ LET key == CacheKey(kind, symbol, timeframe)
         r   == CacheGet(caches[kind], key, now)
         cl  == [IdleCall EXCEPT
                   !.kind = kind, !.symbol = symbol, !.timeframe = timeframe,
                   !.cacheKey = key, !.cached = r.ret,
                   !.alone = \A d \in CallIds \ {c} : Finished(calls[d])]
         joins == \E d \in CallIds \ {c} :
                    /\ ~Finished(calls[d])
                    /\ calls[d].kind = kind /\ calls[d].cacheKey = key
     IN  /\ caches' = [caches EXCEPT ![kind] = r.cache]
         /\ calls' = [d \in CallIds |->
              IF d = c
                THEN IF IsHit(r.ret)
                       THEN [cl EXCEPT !.pc = "returned", !.result = r.ret]
                       ELSE [cl EXCEPT !.pc = "awaitPrimary",
                                       !.primaryCalls = IF joins THEN 0 ELSE 1]
              ELSE IF Finished(calls[d]) THEN calls[d]
              ELSE [calls[d] EXCEPT !.alone = FALSE]]
  /\ UNCHANGED <<now, cache, last, nHit, nMiss, service, elapses, validation, response,
                 cacheService, batch, invalidated, limiter>>

\* getPrice / getHistoricalPrices / getMarketData up to the first await:
\* the cache lookup and, on a miss, the call of the primary provider
Resolve(c, kind, symbol, timeframe) ==
  /\ Finished(calls[c])
  /\ c = NextSlot
  /\ Resolves < MaxResolves
  /\ LET key == CacheKey(kind, symbol, timeframe)
         r   == CacheGet(caches[kind], key, now)
         cl  == [IdleCall EXCEPT
                   !.kind = kind, !.symbol = symbol, !.timeframe = timeframe,
                   !.cacheKey = key, !.cached = r.ret,
                   !.alone = \A d \in CallIds \ {c} : Finished(calls[d])]
     IN  /\ caches' = [caches EXCEPT ![kind] = r.cache]
         /\ calls' = [d \in CallIds |->
              IF d = c
                THEN IF IsHit(r.ret)
                       THEN [cl EXCEPT !.pc = "returned", !.result = r.ret]
                       ELSE [cl EXCEPT !.pc = "awaitPrimary", !.primaryCalls = 1]
              ELSE IF Finished(calls[d]) THEN calls[d]
              ELSE [calls[d] EXCEPT !.alone = FALSE]]
  /\ UNCHANGED <<now, cache, last, nHit, nMiss, service, elapses, validation, response,
                 cacheService, batch, invalidated, limiter>>

\* the primary's result returned without being cached
PrimarySucceededNoCache(cl, payload, t) ==
  [caches |-> caches,
   call   |-> [cl EXCEPT !.pc = "returned", !.result = payload,
                         !.primary = Returned(payload)]]

\* the primary provider's promise resolves: cache the result and return it
PrimarySucceeded(cl, payload, t) ==
  [caches |-> [caches EXCEPT ![cl.kind] =
                 CacheSet(caches[cl.kind], cl.cacheKey, payload, 0, t).cache],
   call   |-> [cl EXCEPT !.pc = "returned", !.result = payload,
                         !.primary = Returned(payload)]]

\* the primary's error wrapped in a new error when there is no fallback
PrimaryFailedWrapped(cl, error) ==
  IF service.fallbackProviderInstance # Null
    THEN [cl EXCEPT !.pc = "awaitFallback", !.fallbackCalls = @ + 1,
                    !.primary = Threw(error)]
    ELSE [cl EXCEPT !.pc = "rejected",
                    !.error = AppError("service", error.message, error.statusCode),
                    !.primary = Threw(error)]

\* the primary called again when it has failed and there is no fallback
PrimaryFailedRetries(cl, error) ==
  IF service.fallbackProviderInstance # Null
    THEN [cl EXCEPT !.pc = "awaitFallback", !.fallbackCalls = @ + 1,
                    !.primary = Threw(error)]
    ELSE [cl EXCEPT !.pc = "awaitPrimary", !.primaryCalls = @ + 1,
                    !.primary = Threw(error)]

\* the primary provider's promise rejects: try the fallback if there is one,
\* else rethrow the primary's error
PrimaryFailed(cl, error) ==
  IF service.fallbackProviderInstance # Null
    THEN [cl EXCEPT !.pc = "awaitFallback", !.fallbackCalls = @ + 1,
                    !.primary = Threw(error)]
    ELSE [cl EXCEPT !.pc = "rejected", !.error = error,
                    !.primary = Threw(error)]

\* the fallback's result cached only when the key has no entry yet
FallbackSucceededFirstWins(cl, payload, t) ==
  [caches |-> IF MapHas(caches[cl.kind].store, cl.cacheKey)
                THEN caches
                ELSE [caches EXCEPT ![cl.kind] =
                        CacheSet(caches[cl.kind], cl.cacheKey, payload, 0, t).cache],
   call   |-> [cl EXCEPT !.pc = "returned", !.result = payload,
                         !.fallback = Returned(payload)]]

\* the fallback provider's promise resolves: cache the result and return it
FallbackSucceeded(cl, payload, t) ==
  [caches |-> [caches EXCEPT ![cl.kind] =
                 CacheSet(caches[cl.kind], cl.cacheKey, payload, 0, t).cache],
   call   |-> [cl EXCEPT !.pc = "returned", !.result = payload,
                         !.fallback = Returned(payload)]]

\* the primary tried once more after the fallback has failed
FallbackFailedRetries(cl, error) ==
  [cl EXCEPT !.pc = "awaitPrimary", !.primaryCalls = @ + 1,
             !.fallback = Threw(error)]

\* the fallback provider's promise rejects as well
FallbackFailed(cl, error) ==
  [cl EXCEPT !.pc = "rejected", !.error = AllFailedError(cl.kind, cl.symbol),
             !.fallback = Threw(error)]

PrimarySucceeds(c) ==
  /\ calls[c].pc = "awaitPrimary"
  /\ \E resp \in Responses(service.primaryProvider, calls[c].kind) :
       LET o == ProviderCall(service.primaryProvider, "primary", calls[c].kind,
                             calls[c].symbol, resp)
       IN  /\ o.ok
           /\ LET n == PrimarySucceeded(calls[c], o.value, now)
              IN  /\ caches' = n.caches
                  /\ calls' = [calls EXCEPT ![c] = n.call]
  /\ UNCHANGED <<now, cache, last, nHit, nMiss, service, elapses, validation, response,
                 cacheService, batch, invalidated, limiter>>

PrimaryFails(c) ==
  /\ calls[c].pc = "awaitPrimary"
  /\ \E resp \in Responses(service.primaryProvider, calls[c].kind) :
       LET o == ProviderCall(service.primaryProvider, "primary", calls[c].kind,
                             calls[c].symbol, resp)
       IN  /\ ~o.ok
           /\ calls' = [calls EXCEPT ![c] = PrimaryFailed(calls[c], o.error)]
  /\ UNCHANGED <<now, cache, last, nHit, nMiss, service, caches, elapses, validation, response,
                 cacheService, batch, invalidated, limiter>>

FallbackSucceeds(c) ==
  /\ calls[c].pc = "awaitFallback"
  /\ \E resp \in Responses(service.fallbackProviderInstance, calls[c].kind) :
       LET o == ProviderCall(service.fallbackProviderInstance, "fallback",
                             calls[c].kind, calls[c].symbol, resp)
       IN  /\ o.ok
           /\ LET n == FallbackSucceeded(calls[c], o.value, now)
              IN  /\ caches' = n.caches
                  /\ calls' = [calls EXCEPT ![c] = n.call]
  /\ UNCHANGED <<now, cache, last, nHit, nMiss, service, elapses, validation, response,
                 cacheService, batch, invalidated, limiter>>

FallbackFails(c) ==
  /\ calls[c].pc = "awaitFallback"
  /\ \E resp \in Responses(service.fallbackProviderInstance, calls[c].kind) :
       LET o == ProviderCall(service.fallbackProviderInstance, "fallback",
                             calls[c].kind, calls[c].symbol, resp)
       IN  /\ ~o.ok
           /\ calls' = [calls EXCEPT ![c] = FallbackFailed(calls[c], o.error)]
  /\ UNCHANGED <<now, cache, last, nHit, nMiss, service, caches, elapses, validation, response,
                 cacheService, batch, invalidated, limiter>>

\* time passes between two steps of the service
ElapseSteps == {HistoricalTtl}

Elapse(d) ==
  /\ elapses < MaxElapses
  /\ now' = now + d
  /\ elapses' = elapses + 1
  /\ UNCHANGED <<cache, last, nHit, nMiss, service, caches, calls, validation, response,
                 cacheService, batch, invalidated, limiter>>

(***************************************************************************)
(* Request validation (src/middleware/validator.js)                        *)
(***************************************************************************)
\* Request values.  kind is the JavaScript type of the value; a number is
\* num, or num + 1/2 when half; a string is the sequence of its characters.
JsValue(kind, num, half, str) == [kind |-> kind, num |-> num, half |-> half, str |-> str]

JsUndefined == JsValue("undefined", 0, FALSE, << >>)

JsNull == JsValue("null", 0, FALSE, << >>)

JsNaN == JsValue("NaN", 0, FALSE, << >>)

JsNumber(n) == JsValue("number", n, FALSE, << >>)

JsHalf(n) == JsValue("number", n, TRUE, << >>)         \* the number n + 0.5

JsString(chars) == JsValue("string", 0, FALSE, chars)

\* value < bound and value > bound for a number value and an integer bound
LessThan(value, bound) == value.num < bound

GreaterThan(value, bound) ==
  IF value.half THEN value.num >= bound ELSE value.num > bound

\* validateType(value, type)
ValidateType(value, type) ==
  CASE type = "string"  -> value.kind = "string"
    [] type = "number"  -> value.kind = "number"          \* typeof number, not NaN
    [] type = "integer" -> value.kind = "number" /\ ~value.half
    [] type = "boolean" -> value.kind = "boolean"
    [] type = "array"   -> value.kind = "array"
    [] type = "object"  -> value.kind = "object"
    [] OTHER            -> TRUE

\* A schema is the sequence of its [key, config] entries (Object.entries).  An
\* absent config key is "" (type), << >> (min, max, minLength, maxLength,
\* enum) or "none" (validator, validate); validator and validate stand for
\* the verdict the function gives on the value.
NoRules ==
  [required |-> FALSE, type |-> "", min |-> << >>, max |-> << >>,
   minLength |-> << >>, maxLength |-> << >>, enum |-> << >>,
   validator |-> "none", validate |-> "none"]

FieldError(field, code, message) == [field |-> field, code |-> code, message |-> message]

\* the checks made on a value that is present and of the declared type
RuleErrors(key, config, value) ==
  (IF config.validator = "rejects"
     THEN <<FieldError(key, "INVALID_VALUE", <<key, "is", "invalid">>)>> ELSE << >>)
  \o (IF config.validate = "rejects"
        THEN <<FieldError(key, "INVALID_VALUE", <<key, "is", "invalid">>)>> ELSE << >>)
  \o (IF config.enum # << >> /\ value \notin config.enum[1]
        THEN <<FieldError(key, "INVALID_ENUM", <<key, "must", "be", "one", "of">>)>>
        ELSE << >>)
  \o (IF config.type \in {"number", "integer"}
        THEN (IF config.min # << >> /\ LessThan(value, config.min[1])
                THEN <<FieldError(key, "MIN_VALUE", <<key, "must", "be", "at", "least">>)>>
                ELSE << >>)
             \o (IF config.max # << >> /\ GreaterThan(value, config.max[1])
                   THEN <<FieldError(key, "MAX_VALUE", <<key, "must", "be", "at", "most">>)>>
                   ELSE << >>)
        ELSE << >>)
  \o (IF config.type = "string"
        THEN (IF config.minLength # << >> /\ Len(value.str) < config.minLength[1]
                THEN <<FieldError(key, "MIN_LENGTH", <<key, "must", "be", "at", "least">>)>>
                ELSE << >>)
             \o (IF config.maxLength # << >> /\ Len(value.str) > config.maxLength[1]
                   THEN <<FieldError(key, "MAX_LENGTH", <<key, "must", "be", "at", "most">>)>>
                   ELSE << >>)
        ELSE << >>)

\* the loop body leaving the iteration right after the type check
FieldErrorsTypeOnly(key, config, value) ==
  IF config.required /\ value \in {JsUndefined, JsNull, JsString(<< >>)}
    THEN <<FieldError(key, "REQUIRED", <<key, "is", "required">>)>>
  ELSE IF value \in {JsUndefined, JsNull}
    THEN << >>
  ELSE IF config.type # "" /\ ~ValidateType(value, config.type)
    THEN <<FieldError(key, "INVALID_TYPE", <<key, "must", "be", "of", "type", config.type>>)>>
  ELSE << >>

\* one iteration of the loop over Object.entries(schema)
FieldErrors(key, config, value) ==
  IF config.required /\ value \in {JsUndefined, JsNull, JsString(<< >>)}
    THEN <<FieldError(key, "REQUIRED", <<key, "is", "required">>)>>
  ELSE IF value \in {JsUndefined, JsNull}
    THEN << >>
  ELSE IF config.type # "" /\ ~ValidateType(value, config.type)
    THEN <<FieldError(key, "INVALID_TYPE", <<key, "must", "be", "of", "type", config.type>>)>>
  ELSE RuleErrors(key, config, value)

\* req.body / req.params / req.query: an object (its fields) or undefined
JsObject(fields) == [defined |-> TRUE, fields |-> fields]

EmptyObject == JsObject(<< >>)

MissingObject == [defined |-> FALSE, fields |-> << >>]

\* dataToValidate[key]
GetField(fields, key) == IF key \in DOMAIN fields THEN fields[key] ELSE JsUndefined

\* the loop over Object.entries(schema), from entry i on
RECURSIVE SchemaErrors(_, _, _)
SchemaErrors(schema, fields, i) ==
  IF i > Len(schema) THEN << >>
  ELSE FieldErrors(schema[i].key, schema[i].config, GetField(fields, schema[i].key))
       \o SchemaErrors(schema, fields, i + 1)

\* errors.map(e => e.message).join(', '), from error i on
RECURSIVE JoinMessages(_, _)
JoinMessages(errors, i) ==
  IF i > Len(errors) THEN << >>
  ELSE errors[i].message \o JoinMessages(errors, i + 1)

\* new ValidationError(message, details): an AppError with status 400
ValidationError(message, details) ==
  [ref |-> "validation", message |-> message, statusCode |-> 400,
   code |-> "VALIDATION_ERROR", details |-> details]

\* new Error(message): no statusCode, no code
PlainError(message) ==
  [ref |-> "error", message |-> message, statusCode |-> 0, code |-> "",
   details |-> << >>]

\* the middleware createValidator(type, schema) returns, run on req: the result
\* is the sequence of the calls of next it makes, each call being the sequence
\* of its arguments
CreateValidator(type, schema, req) ==
  IF type \notin {"body", "params", "query"}
    THEN << <<PlainError(<<"Invalid", "validation", "type">>)>> >>
  ELSE LET dataToValidate == req[type]
       IN  IF ~dataToValidate.defined /\ Len(schema) > 0
             \* reading a property of undefined throws; the catch block
             THEN << <<ValidationError(
                        <<"Validation", "error:", "Cannot", "read", "properties", "of", "undefined">>,
                        <<FieldError("unknown", "VALIDATION_ERROR",
                            <<"Cannot", "read", "properties", "of", "undefined">>)>>)>> >>
           ELSE LET errors == SchemaErrors(schema, dataToValidate.fields, 1)
                IN  IF Len(errors) > 0
                      THEN << <<ValidationError(
                                 <<"Validation", "failed:">> \o JoinMessages(errors, 1),
                                 errors)>> >>
                      ELSE << << >> >>

ValidateBody(schema, req) == CreateValidator("body", schema, req)

ValidateParams(schema, req) == CreateValidator("params", schema, req)

ValidateQuery(schema, req) == CreateValidator("query", schema, req)

NoValidation == [pc |-> "none"]

\* the schemas given to the middleware: the shapes used by the routes and the
\* tests (a field with bounds declares its type)
Entry(key, config) == [key |-> key, config |-> config]

Schemas ==
  { << >>,
    <<Entry("id", NoRules)>>,
    <<Entry("symbol", [NoRules EXCEPT !.type = "string", !.required = TRUE,
                                      !.minLength = <<1>>, !.maxLength = <<2>>])>>,
    <<Entry("name", [NoRules EXCEPT !.type = "string", !.required = TRUE]),
      Entry("age", [NoRules EXCEPT !.type = "number", !.min = <<2>>])>>,
    <<Entry("age", [NoRules EXCEPT !.type = "number", !.min = <<2>>, !.max = <<50>>])>>,
    <<Entry("timeframe", [NoRules EXCEPT !.type = "string",
                            !.enum = <<{JsString(<<"1", "h">>), JsString(<<"1", "d">>)}>>])>>,
    <<Entry("page", [NoRules EXCEPT !.type = "integer", !.min = <<1>>]),
      Entry("limit", [NoRules EXCEPT !.type = "integer", !.min = <<1>>, !.max = <<100>>])>>,
    <<Entry("page", [NoRules EXCEPT !.type = "integer", !.min = <<1>>])>>,
    <<Entry("code", [NoRules EXCEPT !.validator = "accepts"])>>,
    <<Entry("code", [NoRules EXCEPT !.validator = "rejects"])>>,
    <<Entry("code", [NoRules EXCEPT !.type = "string", !.validate = "rejects"])>> }

\* the values a request field may hold
ReqValues ==
  { JsUndefined, JsNull, JsNaN,
    JsNumber(0), JsNumber(2), JsNumber(50), JsNumber(101), JsHalf(2),
    JsString(<< >>), JsString(<<"0">>), JsString(<<"2">>), JsString(<<"5", "0">>),
    JsString(<<"1", "0", "1">>), JsString(<<"1", "d">>), JsString(<<"a", "b", "c">>) }

SchemaKeys(schema) == {schema[i].key : i \in 1..Len(schema)}

Middlewares == {"validateBody", "validateParams", "validateQuery"}

\* the part of the request a middleware validates
Section(via) ==
  CASE via = "validateBody"   -> "body"
    [] via = "validateParams" -> "params"
    [] via = "validateQuery"  -> "query"

\* a request whose validated part is data; the other parts are empty objects
Request(via, data) ==
  [part \in {"body", "params", "query"} |->
     IF part = Section(via) THEN data ELSE EmptyObject]

\* the middleware runs on the request and calls next
RunValidator ==
  /\ validation.pc = "start"
  /\ validation' = [validation EXCEPT
       !.pc = "done",
       !.nextCalls =
          CASE validation.via = "validateBody" ->
                 ValidateBody(validation.schema, validation.req)
            [] validation.via = "validateParams" ->
                 ValidateParams(validation.schema, validation.req)
            [] validation.via = "validateQuery" ->
                 ValidateQuery(validation.schema, validation.req)]
  /\ UNCHANGED <<now, cache, last, nHit, nMiss, service, caches, calls, elapses,
                 response, cacheService, batch, invalidated, limiter>>

(***************************************************************************)
(* Error responses (src/middleware/errorHandler.js)                        *)
(***************************************************************************)
NoResponse == [pc |-> "none"]

\* What errorHandler reads of err.  An absent property is 0 (statusCode),
\* << >> (message; details, which is <<d>> when set to d) or "" (code, stack);
\* a numeric code is held in its printed form.
ErrorObject(name, message, statusCode, code, details, stack) ==
  [name |-> name, message |-> message, statusCode |-> statusCode,
   code |-> code, details |-> details, stack |-> stack]

\* the stack Error.captureStackTrace / new Error() records
StackTrace == "Error\n    at MarketDataService.getPrice (src/services/marketData/index.js:89:13)"

\* an AppError or ValidationError as errorHandler sees it: the classes do not
\* set name, so it is Error's
AsErr(e) ==
  ErrorObject("Error", e.message, e.statusCode, e.code,
              IF "details" \in DOMAIN e THEN <<e.details>> ELSE << >>,
              StackTrace)

\* res.json(body): JSON.stringify leaves out the properties whose value is
\* undefined; props lists the properties as <<name, defined, value>>
JsonObject(props) ==
  LET kept == {i \in 1..Len(props) : props[i][2]}
  IN  [k \in {props[i][1] : i \in kept} |->
         props[CHOOSE i \in kept : props[i][1] = k][3]]

\* the body of errorHandler: the status and the JSON body of the response;
\* development is the outcome of the test on process.env.NODE_ENV
Respond(err, development) ==
  LET statusCode0 == NumOr(err.statusCode, 500)
      message0    == IF err.message # << >> THEN err.message
                     ELSE <<"Internal", "Server", "Error">>
      errorCode0  == IF err.code # "" THEN err.code ELSE "SERVER_ERROR"
      details     == err.details
      stack       == IF development THEN err.stack ELSE ""
      isValidation == err.name = "ValidationError"
      isJson       == /\ ~isValidation /\ err.name = "SyntaxError"
                      /\ Includes(err.message, <<"JSON">>)
      isDuplicate  == /\ ~isValidation /\ ~isJson
                      /\ err.name = "MongoError" /\ err.code = "11000"
      statusCode  == CASE isValidation -> 400 [] isJson -> 400
                       [] isDuplicate -> 409 [] OTHER -> statusCode0
      errorCode   == CASE isValidation -> "VALIDATION_ERROR" [] isJson -> "INVALID_JSON"
                       [] isDuplicate -> "DUPLICATE_ENTITY" [] OTHER -> errorCode0
      message     == CASE isJson -> <<"Invalid", "JSON", "in", "request", "body">>
                       [] isDuplicate -> <<"Entity", "already", "exists">>
                       [] OTHER -> message0
  IN  [status |-> statusCode,
       body   |-> [success |-> FALSE,
                   error   |-> JsonObject(<<
                     <<"message", TRUE, message>>,
                     <<"code", TRUE, errorCode>>,
                     <<"status", TRUE, statusCode>>,
                     <<"details", details # << >>,
                       IF details # << >> THEN details[1] ELSE << >> >>,
                     <<"stack", stack # "", stack>> >>)]]

\* errorHandler that keeps the stack out of production only
ErrorHandlerUnlessProduction(err, env) == Respond(err, env # "production")

\* errorHandler(err, req, res, next) with process.env.NODE_ENV = env
ErrorHandler(err, env) == Respond(err, env = "development")

\* the values of process.env.NODE_ENV ("undefined": not set)
NodeEnvs == {Undefined, "production", "development", "test"}

\* the errors that reach the handler: the resolver's and the providers'
\* AppErrors, the validator's ValidationError, notFoundHandler's error, plain
\* Errors, and the errors of the named kinds the handler looks for
HandledErrors ==
  {AsErr(AllFailedError(kind, symbol)) : kind \in Kinds, symbol \in Symbols}
  \cup {AsErr(ProviderError("primary", kind, symbol)) : kind \in Kinds, symbol \in Symbols}
  \cup {AsErr(ValidationError(<<"Validation", "failed:", "id", "is", "required">>,
                               <<FieldError("id", "REQUIRED", <<"id", "is", "required">>)>>))}
  \cup {ErrorObject("Error", <<"Route", "not", "found:", "/x">>, 404, "NOT_FOUND", << >>, StackTrace),
        ErrorObject("Error", <<"boom">>, 0, "", << >>, StackTrace),
        ErrorObject("Error", << >>, 0, "", << >>, ""),
        ErrorObject("ValidationError", <<"\"age\"", "is", "required">>, 0, "",
                    << <<"age">> >>, StackTrace),
        ErrorObject("SyntaxError", <<"Unexpected", "token", "in", "JSON">>, 400, "",
                    << >>, StackTrace),
        ErrorObject("SyntaxError", <<"Unexpected", "identifier">>, 0, "", << >>, StackTrace),
        ErrorObject("MongoError", <<"E11000", "duplicate", "key">>, 0, "11000",
                    << >>, StackTrace),
        ErrorObject("MongoError", <<"connection", "lost">>, 0, "6", << >>, StackTrace)}

\* Express hands the error to errorHandler, which sends the response
HandleError ==
  /\ response.pc = "error"
  /\ LET r == ErrorHandler(response.err, response.env)
     IN  response' = [response EXCEPT !.pc = "sent", !.status = r.status,
                                      !.body = r.body]
  /\ UNCHANGED <<now, cache, last, nHit, nMiss, service, caches, calls, elapses,
                 validation, cacheService, batch, invalidated, limiter>>

(***************************************************************************)
(* Cache service (services/cacheService.js)                                *)
(***************************************************************************)
CacheTTL == 60                    \* getConfig('marketData.cacheTTL', 60), seconds

ServiceKeys == {"marketData:BTC_1d", "marketData:ETH_1d"}

\* const cache = {} : a key holds no item, << >>, or one item, <<item>>
NewServiceCache == [k \in ServiceKeys |-> << >>]

\* cacheItem.expiresAt && cacheItem.expiresAt < Date.now() ; the expiresAt
\* null of an item that never expires is kept as 0, falsy like null
ItemExpired(item, t) == item.expiresAt # 0 /\ item.expiresAt < t

\* get(key) at time t
ServiceGet(c, key, t) ==
  IF c[key] = << >>
    THEN [cache |-> c, ret |-> Null]
  ELSE IF ItemExpired(c[key][1], t)
    THEN [cache |-> [c EXCEPT ![key] = << >>], ret |-> Null]
  ELSE [cache |-> c, ret |-> c[key][1].value]

\* set(key, value, ttlSeconds) at time t ; an omitted or null ttlSeconds is
\* kept as 0, which `ttlSeconds || ...` treats alike
ServiceSet(c, key, value, ttlSeconds, t) ==
  LET ttl == NumOr(ttlSeconds, CacheTTL)
  IN  [cache |-> [c EXCEPT ![key] =
                    <<[value |-> value,
                       expiresAt |-> IF ttl > 0 THEN t + (ttl * 1000) ELSE 0]>>],
       ret |-> "true"]

\* has(key) at time t
ServiceHas(c, key, t) ==
  IF c[key] = << >>
    THEN [cache |-> c, ret |-> "false"]
  ELSE IF ItemExpired(c[key][1], t)
    THEN [cache |-> [c EXCEPT ![key] = << >>], ret |-> "false"]
  ELSE [cache |-> c, ret |-> "true"]

\* remove(key)
ServiceRemove(c, key) ==
  IF c[key] # << >>
    THEN [cache |-> [c EXCEPT ![key] = << >>], ret |-> "true"]
    ELSE [cache |-> c, ret |-> "false"]

\* clear()
ServiceClear(c) == [cache |-> [k \in ServiceKeys |-> << >>], ret |-> "true"]

\* a getOrSet call: its arguments, what get(key) gave it, the calls of fn it
\* has made and what fn answered, its result or error; touched tells that the
\* key was written by another call while this one was waiting for fn
NoGetOrSet ==
  [pc |-> "idle", key |-> "", ttlSeconds |-> 0, cachedValue |-> Null,
   fnCalls |-> 0, fn |-> NoOutcome, result |-> Undefined, error |-> NoError,
   touched |-> FALSE, n |-> 0]

\* the cacheService module after load, with the position of the getOrSet call
\* under observation, the number of calls made and of clock advances seen
NoCacheService ==
  [cache |-> NewServiceCache, call |-> NoGetOrSet, ops |-> 0, ticks |-> 0]

\* getOrSet(key, fn, ttlSeconds) up to `await fn()`, at time t
GetOrSetStarted(c, key, ttlSeconds, t) ==
  LET r  == ServiceGet(c, key, t)
      cl == [NoGetOrSet EXCEPT !.key = key, !.ttlSeconds = ttlSeconds,
                               !.cachedValue = r.ret]
  IN  [cache |-> r.cache,
       call  |-> IF r.ret # Null                    \* cachedValue !== null
                   THEN [cl EXCEPT !.pc = "returned", !.result = r.ret]
                   ELSE [cl EXCEPT !.pc = "awaitFn", !.fnCalls = 1]]

\* fn() resolved with result at time t: set(key, result, ttlSeconds); return
GetOrSetResolved(c, cl, result, t) ==
  [cache |-> ServiceSet(c, cl.key, result, cl.ttlSeconds, t).cache,
   call  |-> [cl EXCEPT !.pc = "returned", !.result = result,
                         !.fn = Returned(result)]]

\* fn() rejected with error: log it and throw it again
GetOrSetRejected(c, cl, error) ==
  [cache |-> c,
   call  |-> [cl EXCEPT !.pc = "rejected", !.error = error,
                         !.fn = Threw(error)]]

ServiceValues == {Null, "0", "{BTC}"}       \* values stored and fn results

TtlSeconds == {-1, 0, 1}                    \* ttlSeconds arguments

FnErrors == {AppError("fn", <<"provider", "down">>, 503),
             AppError("fn2", <<"timeout">>, 504)}

ServiceWaits == {1, 1000}                   \* milliseconds between two calls

\* another call writes the key the getOrSet call is waiting on
Touches(key) ==
  cacheService.call.pc = "awaitFn" /\ cacheService.call.key = key

DoServiceSet(key, value, ttlSeconds) ==
  /\ cacheService.ops < MaxServiceOps
  /\ cacheService' = [cacheService EXCEPT
       !.cache = ServiceSet(@, key, value, ttlSeconds, now).cache,
       !.call.touched = @ \/ Touches(key),
       !.ops = @ + 1]
  /\ UNCHANGED <<now, cache, last, nHit, nMiss, service, caches, calls, elapses,
                 validation, response, batch, invalidated, limiter>>

DoServiceGet(key) ==
  /\ cacheService.ops < MaxServiceOps
  /\ cacheService' = [cacheService EXCEPT
       !.cache = ServiceGet(@, key, now).cache,
       !.ops = @ + 1]
  /\ UNCHANGED <<now, cache, last, nHit, nMiss, service, caches, calls, elapses,
                 validation, response, batch, invalidated, limiter>>

DoServiceHas(key) ==
  /\ cacheService.ops < MaxServiceOps
  /\ cacheService' = [cacheService EXCEPT
       !.cache = ServiceHas(@, key, now).cache,
       !.ops = @ + 1]
  /\ UNCHANGED <<now, cache, last, nHit, nMiss, service, caches, calls, elapses,
                 validation, response, batch, invalidated, limiter>>

DoServiceRemove(key) ==
  /\ cacheService.ops < MaxServiceOps
  /\ cacheService' = [cacheService EXCEPT
       !.cache = ServiceRemove(@, key).cache,
       !.ops = @ + 1]
  /\ UNCHANGED <<now, cache, last, nHit, nMiss, service, caches, calls, elapses,
                 validation, response, batch, invalidated, limiter>>

DoServiceClear ==
  /\ cacheService.ops < MaxServiceOps
  /\ cacheService' = [cacheService EXCEPT
       !.cache = ServiceClear(@).cache,
       !.ops = @ + 1]
  /\ UNCHANGED <<now, cache, last, nHit, nMiss, service, caches, calls, elapses,
                 validation, response, batch, invalidated, limiter>>

GetOrSet(key, ttlSeconds) ==
  /\ cacheService.ops < MaxServiceOps
  /\ cacheService.call.pc # "awaitFn"
  /\ LET s == GetOrSetStarted(cacheService.cache, key, ttlSeconds, now)
     IN  cacheService' = [cacheService EXCEPT
           !.cache = s.cache,
           !.call = [s.call EXCEPT !.n = cacheService.call.n + 1],
           !.ops = @ + 1]
  /\ UNCHANGED <<now, cache, last, nHit, nMiss, service, caches, calls, elapses,
                 validation, response, batch, invalidated, limiter>>

FnResolves(result) ==
  /\ cacheService.call.pc = "awaitFn"
  /\ LET s == GetOrSetResolved(cacheService.cache, cacheService.call, result, now)
     IN  cacheService' = [cacheService EXCEPT !.cache = s.cache, !.call = s.call]
  /\ UNCHANGED <<now, cache, last, nHit, nMiss, service, caches, calls, elapses,
                 validation, response, batch, invalidated, limiter>>

FnRejects(error) ==
  /\ cacheService.call.pc = "awaitFn"
  /\ LET s == GetOrSetRejected(cacheService.cache, cacheService.call, error)
     IN  cacheService' = [cacheService EXCEPT !.cache = s.cache, !.call = s.call]
  /\ UNCHANGED <<now, cache, last, nHit, nMiss, service, caches, calls, elapses,
                 validation, response, batch, invalidated, limiter>>

\* time passes between two steps of the cache service
ServiceWait(d) ==
  /\ cacheService.ticks < MaxServiceWaits
  /\ now' = now + d
  /\ cacheService' = [cacheService EXCEPT !.ticks = @ + 1]
  /\ UNCHANGED <<cache, last, nHit, nMiss, service, caches, calls, elapses,
                 validation, response, batch, invalidated, limiter>>

(***************************************************************************)
(* getPrices / getMarketsData and invalidateCache                          *)
(* (services/marketData/index.js)                                          *)
(***************************************************************************)
\* getPrice / getMarketData up to the first await, made as call c on the
\* caches cs while the calls cls are in flight: the cache lookup and, on a
\* miss, the call of the primary provider
Started(cs, cls, c, kind, symbol, timeframe, t) ==
  LET key == CacheKey(kind, symbol, timeframe)
      r   == CacheGet(cs[kind], key, t)
      cl  == [IdleCall EXCEPT
                !.kind = kind, !.symbol = symbol, !.timeframe = timeframe,
                !.cacheKey = key, !.cached = r.ret,
                !.alone = \A d \in CallIds \ {c} : Finished(cls[d])]
  IN  [caches |-> [cs EXCEPT ![kind] = r.cache],
       calls  |-> [d \in CallIds |->
          IF d = c
            THEN IF IsHit(r.ret)
                   THEN [cl EXCEPT !.pc = "returned", !.result = r.ret]
                   ELSE [cl EXCEPT !.pc = "awaitPrimary", !.primaryCalls = 1]
          ELSE IF Finished(cls[d]) THEN cls[d]
          ELSE [cls[d] EXCEPT !.alone = FALSE]]]

\* symbols.map(async (symbol) => ...): the mappers run one after the other,
\* each up to its await; the mapper of symbols[i] makes call i
RECURSIVE StartAll(_, _, _, _, _, _)
StartAll(cs, cls, kind, symbols, i, t) ==
  IF i > Len(symbols)
    THEN [caches |-> cs, calls |-> cls]
    ELSE LET s == Started(cs, cls, i, kind, symbols[i], NoTimeframe, t)
         IN  StartAll(s.caches, s.calls, kind, symbols, i + 1, t)

NotSet == "not set"               \* a property the results object lacks

\* a getPrices / getMarketsData call: const results = {}, the mappers that
\* have run to their end, and the state of the promise the call returned
NoBatch ==
  [pc |-> "idle", kind |-> "price", symbols |-> << >>,
   results |-> [s \in Symbols |-> NotSet], settled |-> {}, error |-> NoError,
   n |-> 0]

\* the arrays of symbols the callers pass
SymbolArrays == UNION {[1..n -> Symbols] : n \in 0..NumCalls}

\* a mapper without its catch block: the rejection of its resolve rejects
\* the promise given to Promise.all
SettledWithoutCatch(b, i, cl) ==
  IF cl.pc = "returned"
    THEN [b EXCEPT !.results[b.symbols[i]] = cl.result,
                   !.settled = @ \cup {i}]
    ELSE [b EXCEPT !.pc = "rejected", !.error = cl.error,
                   !.settled = @ \cup {i}]

\* the mapper of symbols[i] after its await, its resolve having ended as cl:
\* results[symbol] = the payload, or null in the catch block
Settled(b, i, cl) ==
  IF cl.pc = "returned"
    THEN [b EXCEPT !.results[b.symbols[i]] = cl.result,
                   !.settled = @ \cup {i}]
    ELSE [b EXCEPT !.results[b.symbols[i]] = Null,
                   !.settled = @ \cup {i}]

\* getPrices(symbols) / getMarketsData(symbols) up to `await Promise.all`
GetBatch(kind, symbols) ==
  /\ batch.pc # "pending"
  /\ batch.n < MaxBatches
  /\ \A c \in CallIds : Finished(calls[c])
  /\ LET s == StartAll(caches, calls, kind, symbols, 1, now)
     IN  /\ caches' = s.caches
         /\ calls' = s.calls
  /\ batch' = [NoBatch EXCEPT !.pc = "pending", !.kind = kind,
                              !.symbols = symbols, !.n = batch.n + 1]
  /\ UNCHANGED <<now, cache, last, nHit, nMiss, service, elapses, validation,
                 response, cacheService, invalidated, limiter>>

GetPrices(symbols) == GetBatch("price", symbols)

GetMarketsData(symbols) == GetBatch("marketData", symbols)

\* the resolve of symbols[i] has returned or thrown: its mapper goes on
Settle(i) ==
  /\ batch.pc = "pending"
  /\ i \in 1..Len(batch.symbols)
  /\ i \notin batch.settled
  /\ calls[i].pc \in {"returned", "rejected"}
  /\ batch' = Settled(batch, i, calls[i])
  /\ UNCHANGED <<now, cache, last, nHit, nMiss, service, caches, calls, elapses,
                 validation, response, cacheService, invalidated, limiter>>

\* every mapper has run to its end: Promise.all resolves, return results
BatchReturns ==
  /\ batch.pc = "pending"
  /\ batch.settled = 1..Len(batch.symbols)
  /\ batch' = [batch EXCEPT !.pc = "returned"]
  /\ UNCHANGED <<now, cache, last, nHit, nMiss, service, caches, calls, elapses,
                 validation, response, cacheService, invalidated, limiter>>

\* ['1d', '7d', '30d', '90d', '1y']
HistoricalTimeframes == <<"1d", "7d", "30d", "90d", "1y">>

\* the symbols the route hands to invalidateCache
InvalidatedSymbols == {"BTC", "btc", "ETH", "eth"}

\* [...].forEach(timeframe => historicalDataCache.del(`historical:...`))
RECURSIVE DelTimeframes(_, _, _)
DelTimeframes(c, prefix, i) ==
  IF i > Len(HistoricalTimeframes) THEN c
  ELSE DelTimeframes(CacheDel(c, prefix \o HistoricalTimeframes[i]).cache,
                     prefix, i + 1)

\* invalidateCache that builds the keys from the symbol as it was given
InvalidatedCaseSensitive(cs, symbol) ==
  [price      |-> CacheDel(cs.price, "price:" \o symbol).cache,
   marketData |-> CacheDel(cs.marketData, "marketData:" \o symbol).cache,
   historical |-> DelTimeframes(cs.historical,
                                "historical:" \o symbol \o ":", 1)]

\* invalidateCache(symbol) on the three caches
Invalidated(cs, symbol) ==
  LET symbolLower == ToLowerCase(symbol)
  IN  [price      |-> CacheDel(cs.price, "price:" \o symbolLower).cache,
       marketData |-> CacheDel(cs.marketData, "marketData:" \o symbolLower).cache,
       historical |-> DelTimeframes(cs.historical,
                                    "historical:" \o symbolLower \o ":", 1)]

\* the invalidateCache calls made so far and the symbol of the last one
NoInvalidation == [n |-> 0, symbol |-> ""]

InvalidateCache(symbol) ==
  /\ invalidated.n < MaxInvalidations
  /\ caches' = Invalidated(caches, symbol)
  /\ invalidated' = [n |-> invalidated.n + 1, symbol |-> symbol]
  /\ UNCHANGED <<now, cache, last, nHit, nMiss, service, calls, elapses,
                 validation, response, cacheService, batch, limiter>>

(***************************************************************************)
(* Rate limiter (middleware/rateLimiter.js)                                *)
(***************************************************************************)
Ips == {"10.0.0.1", "10.0.0.2"}

\* const ipRequests = {} : an IP has no property, << >>, or an array of
\* timestamps, <<array>>
NoRequests == [ip \in Ips |-> << >>]

\* array.filter(timestamp => now - timestamp < windowMs)
InWindow(timestamps, t, windowMs) ==
  SelectSeq(timestamps, LAMBDA timestamp : t - timestamp < windowMs)

\* new AppError(message, 429, 'RATE_LIMIT_EXCEEDED')
RateLimitError ==
  [ref |-> "rateLimiter",
   message |-> <<"Too", "many", "requests,", "please", "try", "again", "later.">>,
   statusCode |-> 429, code |-> "RATE_LIMIT_EXCEEDED"]

\* cleanup() at time t
Cleanup(requests, t, windowMs) ==
  [ip \in Ips |->
     IF requests[ip] = << >> THEN << >>
     ELSE LET kept == InWindow(requests[ip][1], t, windowMs)
          IN  IF Len(kept) = 0 THEN << >> ELSE <<kept>>]

\* the middleware admitting a request when exactly max lie in the window
MiddlewareOffByOne(requests, ip, t, windowMs, max) ==
  LET array == IF requests[ip] = << >> THEN << >> ELSE requests[ip][1]
      requestsInWindow == InWindow(array, t, windowMs)
  IN  IF Len(requestsInWindow) > max
        THEN [ipRequests |-> [requests EXCEPT ![ip] = <<array>>],
              nextArg |-> <<RateLimitError>>, remaining |-> 0]
        ELSE [ipRequests |-> [requests EXCEPT ![ip] = <<Append(array, t)>>],
              nextArg |-> << >>,
              remaining |-> max - Len(requestsInWindow) - 1]

\* the middleware (req, res, next) run at time t on a request of ip: the
\* store afterwards, the argument list of its call of next, and the
\* X-RateLimit-Remaining header
Middleware(requests, ip, t, windowMs, max) ==
  LET array == IF requests[ip] = << >> THEN << >> ELSE requests[ip][1]
      requestsInWindow == InWindow(array, t, windowMs)
  IN  IF Len(requestsInWindow) >= max
        THEN [ipRequests |-> [requests EXCEPT ![ip] = <<array>>],
              nextArg |-> <<RateLimitError>>, remaining |-> 0]
        ELSE [ipRequests |-> [requests EXCEPT ![ip] = <<Append(array, t)>>],
              nextArg |-> << >>,
              remaining |-> max - Len(requestsInWindow) - 1]

\* the rate limiter after app.use(rateLimiter()): the store, the last request
\* it handled, and per IP the timestamps of the requests it let through
NoLimiter ==
  [ipRequests |-> NoRequests,
   last       |-> [n |-> 0, ip |-> "", at |-> 0, nextArg |-> << >>,
                   remaining |-> 0],
   admitted   |-> [ip \in Ips |-> << >>]]

HandleRequest(ip) ==
  /\ limiter.last.n < MaxRequests
  /\ LET m == Middleware(limiter.ipRequests, ip, now, WindowMs, RateMax)
     IN  limiter' = [ipRequests |-> m.ipRequests,
                     last       |-> [n |-> limiter.last.n + 1, ip |-> ip,
                                     at |-> now, nextArg |-> m.nextArg,
                                     remaining |-> m.remaining],
                     admitted   |-> IF m.nextArg = << >>
                                      THEN [limiter.admitted EXCEPT
                                              ![ip] = Append(@, now)]
                                      ELSE limiter.admitted]
  /\ UNCHANGED <<now, cache, last, nHit, nMiss, service, caches, calls, elapses,
                 validation, response, cacheService, batch, invalidated>>

\* setInterval(cleanup, 60 * 1000) fires
RunCleanup ==
  /\ limiter' = [limiter EXCEPT
       !.ipRequests = Cleanup(limiter.ipRequests, now, WindowMs)]
  /\ UNCHANGED <<now, cache, last, nHit, nMiss, service, caches, calls, elapses,
                 validation, response, cacheService, batch, invalidated>>

\* a millisecond passes
ClockTick ==
  /\ now < MaxClock
  /\ now' = now + 1
  /\ UNCHANGED <<cache, last, nHit, nMiss, service, caches, calls, elapses,
                 validation, response, cacheService, batch, invalidated, limiter>>

(***************************************************************************)
(* Specifications                                                          *)
(***************************************************************************)
ConfigDefaultProviders == {Undefined}

ConfigFallbackProviders == {Undefined, Null}

\* a Cache under test, built with options {ttl, max}
Init ==
  /\ cacheService = NoCacheService
  /\ batch = NoBatch
  /\ invalidated = NoInvalidation
  /\ limiter = NoLimiter
  /\ now = 0
  /\ cache = NewCache([ttl |-> OptTtl, max |-> Capacity])
  /\ last = NoCall
  /\ nHit = 0
  /\ nMiss = 0
  /\ service = NewService([defaultProvider |-> Undefined, fallbackProvider |-> Undefined])
  /\ caches = NewCaches
  /\ calls = [c \in CallIds |-> IdleCall]
  /\ elapses = 0
  /\ validation = NoValidation
  /\ response = NoResponse

Next ==
  \/ \E key \in Keys, value \in Values, ttl \in TtlArgs : DoSet(key, value, ttl)
  \/ \E key \in Keys : DoGet(key)
  \/ \E key \in Keys : DoHas(key)
  \/ \E key \in Keys : DoDel(key)
  \/ DoClear
  \/ DoPrune
  \/ Tick

Spec == Init /\ [][Next]_vars

NextLru ==
  \/ \E key \in Keys : LruSet(key)
  \/ \E key \in Keys : LruGet(key)
  \/ Tick

SpecLru == Init /\ [][NextLru]_vars

\* a validation middleware about to run on a request
InitValidate ==
  /\ cacheService = NoCacheService
  /\ batch = NoBatch
  /\ invalidated = NoInvalidation
  /\ limiter = NoLimiter
  /\ now = 0
  /\ cache = NewCache([ttl |-> 0, max |-> 0])
  /\ last = NoCall
  /\ nHit = 0
  /\ nMiss = 0
  /\ service = NewService([defaultProvider |-> Undefined, fallbackProvider |-> Undefined])
  /\ caches = NewCaches
  /\ calls = [c \in CallIds |-> IdleCall]
  /\ elapses = 0
  /\ \E via \in Middlewares, schema \in Schemas :
       \E data \in {MissingObject}
                   \cup {JsObject(f) : f \in [SchemaKeys(schema) -> ReqValues]} :
         validation = [pc |-> "start", via |-> via, schema |-> schema,
                       req |-> Request(via, data), nextCalls |-> << >>]
  /\ response = NoResponse

NextValidate == RunValidator

SpecValidate == InitValidate /\ [][NextValidate]_vars

\* an error on its way to errorHandler, under each NODE_ENV
InitErrorHandler ==
  /\ cacheService = NoCacheService
  /\ batch = NoBatch
  /\ invalidated = NoInvalidation
  /\ limiter = NoLimiter
  /\ now = 0
  /\ cache = NewCache([ttl |-> 0, max |-> 0])
  /\ last = NoCall
  /\ nHit = 0
  /\ nMiss = 0
  /\ service = NewService([defaultProvider |-> Undefined, fallbackProvider |-> Undefined])
  /\ caches = NewCaches
  /\ calls = [c \in CallIds |-> IdleCall]
  /\ elapses = 0
  /\ validation = NoValidation
  /\ \E err \in HandledErrors, env \in NodeEnvs :
       response = [pc |-> "error", err |-> err, env |-> env, status |-> 0,
                   body |-> [success |-> TRUE, error |-> << >>]]

NextErrorHandler == HandleError

SpecErrorHandler == InitErrorHandler /\ [][NextErrorHandler]_vars

\* the service after module load, under each configuration of the providers
InitResolve ==
  /\ cacheService = NoCacheService
  /\ batch = NoBatch
  /\ invalidated = NoInvalidation
  /\ limiter = NoLimiter
  /\ now = 0
  /\ cache = NewCache([ttl |-> 0, max |-> 0])
  /\ last = NoCall
  /\ nHit = 0
  /\ nMiss = 0
  /\ \E d \in ConfigDefaultProviders, f \in ConfigFallbackProviders :
       service = NewService([defaultProvider |-> d, fallbackProvider |-> f])
  /\ caches = NewCaches
  /\ calls = [c \in CallIds |-> IdleCall]
  /\ elapses = 0
  /\ validation = NoValidation
  /\ response = NoResponse

NextResolve ==
  \/ \E c \in CallIds, symbol \in Symbols :
       \/ Resolve(c, "price", symbol, NoTimeframe)
       \/ Resolve(c, "marketData", symbol, NoTimeframe)
       \/ \E timeframe \in Timeframes : Resolve(c, "historical", symbol, timeframe)
  \/ \E c \in CallIds : PrimarySucceeds(c)
  \/ \E c \in CallIds : PrimaryFails(c)
  \/ \E c \in CallIds : FallbackSucceeds(c)
  \/ \E c \in CallIds : FallbackFails(c)
  \/ \E d \in ElapseSteps : Elapse(d)

SpecResolve == InitResolve /\ [][NextResolve]_vars

\* every provider call is an axios request with timeout 10000: it returns or
\* fails in the end
ProviderAnswers(c) ==
  \/ PrimarySucceeds(c) \/ PrimaryFails(c)
  \/ FallbackSucceeds(c) \/ FallbackFails(c)

SpecResolveFair ==
  SpecResolve /\ \A c \in CallIds : WF_vars(ProviderAnswers(c))

\* the cacheService module after load, driven through its exported functions
NextCacheService ==
  \/ \E key \in ServiceKeys, value \in ServiceValues, ttlSeconds \in TtlSeconds :
       DoServiceSet(key, value, ttlSeconds)
  \/ \E key \in ServiceKeys : DoServiceGet(key)
  \/ \E key \in ServiceKeys : DoServiceHas(key)
  \/ \E key \in ServiceKeys : DoServiceRemove(key)
  \/ DoServiceClear
  \/ \E key \in ServiceKeys, ttlSeconds \in TtlSeconds : GetOrSet(key, ttlSeconds)
  \/ \E result \in ServiceValues : FnResolves(result)
  \/ \E error \in FnErrors : FnRejects(error)
  \/ \E d \in ServiceWaits : ServiceWait(d)

SpecCacheService == Init /\ [][NextCacheService]_vars

\* the service answering getPrices and getMarketsData calls
NextBatch ==
  \/ \E symbols \in SymbolArrays : GetPrices(symbols)
  \/ \E symbols \in SymbolArrays : GetMarketsData(symbols)
  \/ \E c \in CallIds : PrimarySucceeds(c)
  \/ \E c \in CallIds : PrimaryFails(c)
  \/ \E c \in CallIds : FallbackSucceeds(c)
  \/ \E c \in CallIds : FallbackFails(c)
  \/ \E i \in CallIds : Settle(i)
  \/ BatchReturns

SpecBatch == InitResolve /\ [][NextBatch]_vars

\* the service answering resolve calls of every timeframe, and invalidateCache
NextInvalidate ==
  \/ \E c \in CallIds, symbol \in Symbols :
       \/ Resolve(c, "price", symbol, NoTimeframe)
       \/ Resolve(c, "marketData", symbol, NoTimeframe)
       \/ \E i \in 1..Len(HistoricalTimeframes) :
            Resolve(c, "historical", symbol, HistoricalTimeframes[i])
  \/ \E c \in CallIds : PrimarySucceeds(c)
  \/ \E c \in CallIds : PrimaryFails(c)
  \/ \E c \in CallIds : FallbackSucceeds(c)
  \/ \E c \in CallIds : FallbackFails(c)
  \/ \E symbol \in InvalidatedSymbols : InvalidateCache(symbol)

SpecInvalidate == InitResolve /\ [][NextInvalidate]_vars

\* the rate limiter handling the requests of the clients
NextLimiter ==
  \/ \E ip \in Ips : HandleRequest(ip)
  \/ RunCleanup
  \/ ClockTick

SpecLimiter == Init /\ [][NextLimiter]_vars

(***************************************************************************)
(* Properties of the Cache (checked under Spec)                            *)
(***************************************************************************)

\* C1 - Eviction bound: after every set() call the number of stored entries
\* is at most max, also when several distinct keys are set within the same
\* clock instant.
C1_EvictionBound == last.op = "set" => Len(cache.store) <= cache.max

\* C2 - Expiry: set(k, v, ttl) with ttl > 0 followed by get(k) with no time
\* elapsed returns v; once now > creation time + ttl, get(k) reports absent
\* and has(k) is false (no set of k in between); and whenever the stored
\* entry of a key is past its expiry, get reports absent and has is false.
C2_Expiry ==
  [][ /\ ( /\ last.op = "set" /\ last.ttl > 0
           /\ last'.n = last.n + 1 /\ last'.key = last.key
           /\ last'.op = "get" )
         => /\ (now = last.at => last'.ret = last.value)
            /\ (now > last.at + last.ttl => last'.ret = Undefined)
      /\ ( /\ last.op = "set" /\ last.ttl > 0
           /\ last'.n = last.n + 1 /\ last'.key = last.key
           /\ last'.op = "has" )
         => (now > last.at + last.ttl => last'.ret = "false")
      /\ ( /\ last'.n = last.n + 1 /\ last'.op \in {"get", "has"}
           /\ MapHas(cache.store, last'.key)
           /\ now > MapGet(cache.store, last'.key).expiry )
         => last'.ret = (IF last'.op = "get" THEN Undefined ELSE "false")
    ]_vars

\* set(k, v, ttl) then, after the ttl has passed, get(k): the get reported
\* absent and removed the only entry
W_C2 ==
  /\ last.op = "get" /\ last.ret = Undefined /\ last.n = 2
  /\ last.ttl > 0 /\ now > last.at + last.ttl
  /\ cache.stats.sets = 1 /\ cache.stats.deletes = 0
  /\ Len(cache.store) = 0

\* C10 - Hit rate: after h hits and m misses of get(), getStats().hitRate is
\* h/(h+m) when h+m > 0 and 0 (not NaN) when h = m = 0.
C10_HitRate ==
  GetStats(cache).hitRate =
    (IF nHit + nMiss > 0 THEN Ratio(nHit, nHit + nMiss) ELSE Zero)

\* one hit and one miss: the hit rate is 1/2
W_C10 == nHit = 1 /\ nMiss = 1 /\ GetStats(cache).hitRate = Ratio(1, 2)

\* this step is a call of method op on the Cache under test
CallOf(op) == last'.n = last.n + 1 /\ last'.op = op

\* C11 - Eviction victim: set() of a key that is not stored, on a cache whose
\* size equals max, removes exactly one stored entry before inserting, and
\* that entry has the smallest creation timestamp of the stored entries
\* (any of them on ties), whatever the expiry times.
C11_EvictionVictim ==
  [][ ( /\ CallOf("set")
        /\ ~MapHas(cache.store, last'.key)
        /\ Len(cache.store) = cache.max )
      => \E i \in 1..Len(cache.store) :
           /\ \A j \in 1..Len(cache.store) :
                cache.store[i].timestamp <= cache.store[j].timestamp
           /\ MapDelete(cache'.store, last'.key)
                = MapDelete(cache.store, cache.store[i].key)
    ]_vars

\* C12 - Entry invariant: every stored entry has expiry strictly greater
\* than its creation timestamp, whatever ttl argument its set() was given.
C12_ExpiryAfterCreation ==
  \A i \in 1..Len(cache.store) : cache.store[i].expiry > cache.store[i].timestamp

\* C13 - del(key) removes the entry at once when the key is stored and
\* returns true exactly when an entry was removed; every other key's entry
\* is unchanged; and a key that is not stored (after its del, before its next
\* set) is absent for get and false for has.
C13_Del ==
  [][ /\ CallOf("del")
         => /\ last'.ret = (IF MapHas(cache.store, last'.key) THEN "true" ELSE "false")
            /\ (last'.ret = "true") <=> (Len(cache'.store) = Len(cache.store) - 1)
            /\ (last'.ret = "false") <=> (cache'.store = cache.store)
            /\ ~MapHas(cache'.store, last'.key)
            /\ \A k \in Keys \ {last'.key} :
                 /\ MapHas(cache'.store, k) <=> MapHas(cache.store, k)
                 /\ MapHas(cache.store, k)
                      => MapGet(cache'.store, k) = MapGet(cache.store, k)
      /\ (CallOf("get") /\ ~MapHas(cache.store, last'.key))
         => (last'.ret = Undefined /\ ~MapHas(cache'.store, last'.key))
      /\ (CallOf("has") /\ ~MapHas(cache.store, last'.key))
         => (last'.ret = "false" /\ ~MapHas(cache'.store, last'.key))
      /\ (last.op = "del" /\ last'.n = last.n + 1 /\ last'.key = last.key)
         => /\ last'.op = "get" => last'.ret = Undefined
            /\ last'.op = "has" => last'.ret = "false"
            /\ last'.op = "del" => last'.ret = "false"
    ]_vars

\* two keys were set and one of them deleted: del returned true and the other
\* key's entry is still stored
W_C13 ==
  /\ last.op = "del" /\ last.ret = "true"
  /\ cache.stats.sets = 2 /\ cache.stats.deletes = 1
  /\ Len(cache.store) = 1 /\ ~MapHas(cache.store, last.key)

\* the entry is expired at time t
Expired(e, t) == t > e.expiry

\* C14 - prune() removes every entry that is expired at the time of the call
\* (now > expiry) and no other entry, and returns the number of entries it
\* removed; right after prune() no stored entry is expired.
C14_Prune ==
  [][ CallOf("prune")
        => /\ \A i \in 1..Len(cache.store) :
                IF Expired(cache.store[i], now)
                  THEN ~MapHas(cache'.store, cache.store[i].key)
                  ELSE /\ MapHas(cache'.store, cache.store[i].key)
                       /\ MapGet(cache'.store, cache.store[i].key) = cache.store[i]
           /\ MapKeys(cache'.store) \subseteq MapKeys(cache.store)
           /\ last'.count = Len(cache.store) - Len(cache'.store)
           /\ \A j \in 1..Len(cache'.store) : ~Expired(cache'.store[j], now)
    ]_vars

\* prune() removed one expired entry and kept an entry that expires at this
\* very instant
W_C14 ==
  /\ last.op = "prune" /\ last.count = 1
  /\ Len(cache.store) = 1 /\ cache.store[1].expiry = now
  /\ cache.stats.sets = 2 /\ cache.stats.deletes = 1

\* C15 - has(key) has the expiry semantics of get(key): has returns true
\* exactly when get, called in the same state at the same time, would return
\* the stored value (entry stored and now <= expiry), and has on an expired
\* entry removes it from the store just as get does.
C15_HasLikeGet ==
  [][ /\ CallOf("has")
         => LET g == CacheGet(cache, last'.key, now)
            IN  /\ (last'.ret = "true")
                      <=> /\ MapHas(cache.store, last'.key)
                          /\ now <= MapGet(cache.store, last'.key).expiry
                          /\ g.ret = MapGet(cache.store, last'.key).value
                /\ last'.ret \in {"true", "false"}
                /\ cache'.store = g.cache.store
      /\ CallOf("get")
         => LET h == CacheHas(cache, last'.key, now)
            IN  /\ (h.ret = "true")
                      <=> /\ MapHas(cache.store, last'.key)
                          /\ last'.ret = MapGet(cache.store, last'.key).value
                /\ cache'.store = h.cache.store
    ]_vars

\* has() of the only entry, which had expired: it answered false and removed
\* the entry (the deletes counter counts del and prune only)
W_C15 ==
  /\ last.op = "has" /\ last.ret = "false" /\ last.n = 2
  /\ cache.stats.sets = 1 /\ cache.stats.deletes = 0
  /\ Len(cache.store) = 0

\* C16 - LRU: when a set() on a full cache evicts an entry, the evicted entry
\* is the least recently used one of the stored entries, where a set() or a
\* get() that returned the stored value counts as a use of the key.
C16_Lru ==
  [][ (CallOf("set") /\ Len(cache.store) >= cache.max)
        => \A i \in 1..Len(cache.store) :
             ( /\ cache.store[i].key # last'.key
               /\ ~MapHas(cache'.store, cache.store[i].key) )
               => \A j \in 1..Len(cache.store) :
                    last.used[cache.store[i].key] <= last.used[cache.store[j].key]
    ]_vars

\* C23 - Counter accounting of get: every get() increases exactly one of
\* hits and misses by one (hits when the stored value is returned, misses
\* when the key is not stored or is expired) and changes no other counter;
\* no other method changes hits or misses; so hits + misses is the number of
\* get() calls made so far.
C23_GetAccounting ==
  [][ /\ CallOf("get")
         => LET stored == MapHas(cache.store, last'.key)
                hit    == stored /\ now <= MapGet(cache.store, last'.key).expiry
            IN  /\ hit => /\ last'.ret = MapGet(cache.store, last'.key).value
                          /\ cache'.stats.hits = cache.stats.hits + 1
                          /\ cache'.stats.misses = cache.stats.misses
                /\ ~hit => /\ last'.ret = Undefined
                           /\ cache'.stats.hits = cache.stats.hits
                           /\ cache'.stats.misses = cache.stats.misses + 1
                /\ cache'.stats.sets = cache.stats.sets
                /\ cache'.stats.deletes = cache.stats.deletes
      /\ ~CallOf("get")
         => /\ cache'.stats.hits = cache.stats.hits
            /\ cache'.stats.misses = cache.stats.misses
      /\ cache'.stats.hits + cache'.stats.misses = nHit' + nMiss'
    ]_vars

\* set, get (a hit), then get after the entry has expired (a miss that
\* removes the entry): one hit and one miss counted
W_C23 ==
  /\ last.op = "get" /\ last.ret = Undefined /\ last.n = 3
  /\ cache.stats.hits = 1 /\ cache.stats.misses = 1
  /\ cache.stats.sets = 1 /\ cache.stats.deletes = 0
  /\ Len(cache.store) = 0

(***************************************************************************)
(* Properties of the validation middleware (checked under SpecValidate)    *)
(***************************************************************************)
\* twice the number a value holds
Twice(value) == 2 * value.num + (IF value.half THEN 1 ELSE 0)

\* the value satisfies every rule of the field's config: required, type,
\* min/max of a number or integer field, minLength/maxLength of a string
\* field, enum and the custom validators
Satisfies(config, value) ==
  LET provided == value.kind \notin {"undefined", "null"}
  IN  /\ config.required => (provided /\ value # JsString(<< >>))
      /\ provided =>
           /\ config.type = "string" => value.kind = "string"
           /\ config.type = "number" => value.kind = "number"
           /\ config.type = "integer" => (value.kind = "number" /\ ~value.half)
           /\ (config.type \in {"number", "integer"} /\ config.min # << >>)
                => Twice(value) >= 2 * config.min[1]
           /\ (config.type \in {"number", "integer"} /\ config.max # << >>)
                => Twice(value) <= 2 * config.max[1]
           /\ (config.type = "string" /\ config.minLength # << >>)
                => Len(value.str) >= config.minLength[1]
           /\ (config.type = "string" /\ config.maxLength # << >>)
                => Len(value.str) <= config.maxLength[1]
           /\ config.enum # << >> => value \in config.enum[1]
           /\ config.validator # "rejects" /\ config.validate # "rejects"

\* the validated part of the request satisfies the schema
Valid(v) ==
  LET data == v.req[Section(v.via)]
  IN  /\ data.defined \/ Len(v.schema) = 0
      /\ \A i \in 1..Len(v.schema) :
           Satisfies(v.schema[i].config, GetField(data.fields, v.schema[i].key))

Digits == <<"0", "1", "2", "3", "4", "5", "6", "7", "8", "9">>

IsDigit(ch) == \E d \in 1..Len(Digits) : Digits[d] = ch

DigitOf(ch) == (CHOOSE d \in 1..Len(Digits) : Digits[d] = ch) - 1

IsNumeric(chars) == Len(chars) > 0 /\ \A i \in 1..Len(chars) : IsDigit(chars[i])

RECURSIVE NumberOf(_, _)
NumberOf(chars, n) ==
  IF n = 0 THEN 0 ELSE 10 * NumberOf(chars, n - 1) + DigitOf(chars[n])

\* the value is a string holding an integer within the field's bounds
InRangeString(config, value) ==
  /\ value.kind = "string" /\ IsNumeric(value.str)
  /\ config.min # << >> => NumberOf(value.str, Len(value.str)) >= config.min[1]
  /\ config.max # << >> => NumberOf(value.str, Len(value.str)) <= config.max[1]

\* every field of the schema is of type integer with a min or max bound
IntegerSchema(schema) ==
  /\ Len(schema) > 0
  /\ \A i \in 1..Len(schema) :
       /\ schema[i].config.type = "integer"
       /\ schema[i].config.min # << >> \/ schema[i].config.max # << >>

\* C18 - Query validation accepts numeric strings: validateQuery with a
\* schema of integer fields with min/max bounds calls next once with no error
\* when the query values are strings holding in-range integers (page = '2',
\* limit = '50'), and calls next with a 400 error when a value is a
\* non-numeric string.
C18_QueryNumericStrings ==
  ( /\ validation.pc = "done" /\ validation.via = "validateQuery"
    /\ IntegerSchema(validation.schema) /\ validation.req.query.defined )
    => LET schema == validation.schema
           query  == validation.req.query.fields
       IN  /\ (\A i \in 1..Len(schema) :
                 InRangeString(schema[i].config, GetField(query, schema[i].key)))
                => validation.nextCalls = << << >> >>
           /\ (\E i \in 1..Len(schema) :
                 /\ GetField(query, schema[i].key).kind = "string"
                 /\ ~IsNumeric(GetField(query, schema[i].key).str))
                => /\ Len(validation.nextCalls) = 1
                   /\ Len(validation.nextCalls[1]) = 1
                   /\ validation.nextCalls[1][1].statusCode = 400

(***************************************************************************)
(* Properties of the error handler (checked under SpecErrorHandler)        *)
(***************************************************************************)
\* C19 - No stack-trace leak: the JSON error response has a stack field only
\* when NODE_ENV is 'development'; with NODE_ENV 'production' or unset, a
\* total provider failure gives a 5xx response of the form
\* {success: false, error: {message, code, ...}} without stack.
C19_NoStackLeak ==
  response.pc = "sent"
    => /\ "stack" \in DOMAIN response.body.error => response.env = "development"
       /\ ( /\ response.env \in {"production", Undefined}
            /\ \E kind \in Kinds, symbol \in Symbols :
                 response.err = AsErr(AllFailedError(kind, symbol)) )
            => /\ response.status \in 500..599
               /\ response.body.success = FALSE
               /\ {"message", "code"} \subseteq DOMAIN response.body.error
               /\ "stack" \notin DOMAIN response.body.error
               /\ response.body.error["message"] = response.err.message

\* the response to a total provider failure with NODE_ENV not set: 500,
\* INTERNAL_ERROR, and no stack although the error carries one
W_C19 ==
  /\ response.pc = "sent" /\ response.env = Undefined
  /\ response.err = AsErr(AllFailedError("price", "BTC"))
  /\ response.err.stack # ""
  /\ response.status = 500
  /\ response.body.error["code"] = "INTERNAL_ERROR"
  /\ "stack" \notin DOMAIN response.body.error


(***************************************************************************)
\* this step is the start of a resolve call, which takes slot d
Resolving(d) == Resolves' = Resolves + 1 /\ d = NextSlot

\* the call returned v and called no provider
ServedFromCache(cl, v) ==
  /\ cl.pc = "returned" /\ cl.result = v
  /\ cl.primaryCalls = 0 /\ cl.fallbackCalls = 0

\* the cache of the call's method holds a non-expired entry under its key
FreshFor(cl) == Fresh(caches[cl.kind], cl.cacheKey, now)

StoredFor(cl) == MapGet(caches[cl.kind].store, cl.cacheKey).value

\* both providers were called in call c and both failed
BothFailed(cl) == cl.primary.error # NoError /\ cl.fallback.error # NoError

\* the cache of call c's method holds payload v under the call's key
Holds(cs, cl, v) ==
  /\ MapHas(cs[cl.kind].store, cl.cacheKey)
  /\ MapGet(cs[cl.kind].store, cl.cacheKey).value = v

\* C3 - Cache hit short-circuits the resolver: when the cache holds a
\* non-expired entry under the call's key, the cached payload is returned and
\* no provider is called, whatever the payload (0, NaN, ... included).
C3_HitShortCircuits ==
  [][ \A d \in CallIds :
        (Resolving(d) /\ FreshFor(calls'[d]))
          => ServedFromCache(calls'[d], StoredFor(calls'[d]))
    ]_vars

\* C4 - Fallback correctness: on a miss, if the primary fails and the fallback
\* succeeds with p, the call returns p and the cache then holds p under the
\* key; a later call on the same key that finds p stored and not expired
\* (so not evicted or invalidated) calls neither provider and returns p.
C4_FallbackCorrectness ==
  [][ /\ \A c \in CallIds :
           (calls[c].pc = "awaitFallback" /\ calls'[c].fallback.ok)
             => /\ calls'[c].pc = "returned"
                /\ calls'[c].result = calls'[c].fallback.value
                /\ Holds(caches', calls'[c], calls'[c].fallback.value)
      /\ \A c, d \in CallIds :
           ( /\ calls[c].pc = "returned" /\ calls[c].fallback.ok
             /\ Resolving(d)
             /\ calls'[d].kind = calls[c].kind
             /\ calls'[d].cacheKey = calls[c].cacheKey
             /\ FreshFor(calls[c])
             /\ StoredFor(calls[c]) = calls[c].result )
             => ServedFromCache(calls'[d], calls[c].result)
    ]_vars

\* C5 - Composite failure: when both providers fail within one call, the
\* call rejects with an error whose message contains the primary's error
\* message and the fallback's error message.
C5_CompositeFailure ==
  \A c \in CallIds :
    BothFailed(calls[c])
      => /\ calls[c].pc = "rejected"
         /\ Includes(calls[c].error.message, calls[c].primary.error.message)
         /\ Includes(calls[c].error.message, calls[c].fallback.error.message)

\* C6 - State unchanged on total failure: when both providers fail within one
\* call (no other call in flight meanwhile), no set is performed and the
\* cache holds no entry for the call's key afterwards.
C6_UnchangedOnTotalFailure ==
  [][ \A c \in CallIds :
        ( /\ calls[c].pc = "awaitFallback" /\ calls'[c].pc = "rejected"
          /\ calls'[c].alone )
          => /\ caches' = caches
             /\ ~MapHas(caches'[calls'[c].kind].store, calls'[c].cacheKey)
    ]_vars

\* C7 - No fallback configured and the primary fails: the call rejects with
\* exactly the primary's error (the same object, not wrapped or replaced)
\* and nothing is cached.
C7_NoFallbackPropagates ==
  [][ \A c \in CallIds :
        ( /\ calls[c].pc = "awaitPrimary"
          /\ calls'[c].primary.error # NoError
          /\ service.fallbackProviderInstance = Null )
          => /\ calls'[c].pc = "rejected"
             /\ calls'[c].error = calls'[c].primary.error
             /\ calls'[c].fallbackCalls = 0
             /\ caches' = caches
    ]_vars

\* a call rejected with the primary provider's error, no fallback configured
W_C7 ==
  \E c \in CallIds :
    /\ service.fallbackProviderInstance = Null
    /\ calls[c].pc = "rejected"
    /\ calls[c].error.ref = "primary"
    /\ ~MapHas(caches[calls[c].kind].store, calls[c].cacheKey)

\* C8 - No retry: within one call the primary provider is called at most
\* once and the fallback provider at most once, whatever the outcomes.
C8_NoRetry ==
  \A c \in CallIds : calls[c].primaryCalls <= 1 /\ calls[c].fallbackCalls <= 1

\* a call that tried both providers, both failing, each exactly once
W_C8 ==
  \E c \in CallIds :
    /\ calls[c].pc = "rejected" /\ BothFailed(calls[c])
    /\ calls[c].primaryCalls = 1 /\ calls[c].fallbackCalls = 1

\* how far a call has come: START/CACHE_CHECK, PRIMARY_CALL, FALLBACK_CALL,
\* and the terminal states HIT/SUCCESS (returned) and FAILED (rejected)
Rank(pc) ==
  CASE pc = "idle"          -> 0
    [] pc = "awaitPrimary"  -> 1
    [] pc = "awaitFallback" -> 2
    [] pc \in {"returned", "rejected"} -> 3

\* what call c did and got, its bookkeeping of other calls left out
Progress(cl) == [cl EXCEPT !.alone = TRUE]

\* C20 - Termination: a resolve call follows START -> CACHE_CHECK -> {HIT |
\* PRIMARY_CALL -> {SUCCESS | FALLBACK_CALL -> {SUCCESS | FAILED}}} (FAILED
\* right after PRIMARY_CALL only when no fallback is configured), visits no
\* state twice, and, every provider call returning or failing in the end,
\* reaches a terminal state: it returns a payload or rejects.
C20_Termination ==
  /\ [][ \A c \in CallIds :
           /\ Resolving(c)
                => /\ Finished(calls[c])
                   /\ calls'[c].pc \in {"returned", "awaitPrimary"}
                   /\ calls'[c].pc = "returned" => calls'[c].primaryCalls = 0
           /\ (~Resolving(c) /\ Progress(calls'[c]) # Progress(calls[c]))
                => /\ Rank(calls'[c].pc) > Rank(calls[c].pc)
                   /\ calls[c].pc = "awaitPrimary"
                        => \/ calls'[c].pc = "returned" /\ calls'[c].primary.ok
                           \/ calls'[c].pc = "awaitFallback"
                           \/ /\ calls'[c].pc = "rejected"
                              /\ service.fallbackProviderInstance = Null
                   /\ calls[c].pc = "awaitFallback"
                        => \/ calls'[c].pc = "returned" /\ calls'[c].fallback.ok
                           \/ calls'[c].pc = "rejected"
                   /\ calls[c].pc \notin {"idle", "returned", "rejected"}
       ]_vars
  /\ \A c \in CallIds :
       (calls[c].pc \in {"awaitPrimary", "awaitFallback"})
         ~> (calls[c].pc \in {"returned", "rejected"})

\* a call that went all the way: the primary failed, the fallback answered,
\* and the call returned the fallback's payload
W_C20 ==
  \E c \in CallIds :
    /\ calls[c].pc = "returned"
    /\ calls[c].primaryCalls = 1 /\ ~calls[c].primary.ok
    /\ calls[c].fallbackCalls = 1 /\ calls[c].fallback.ok
    /\ calls[c].result = calls[c].fallback.value

\* calls c and d are two calls for the same cache key
SameKey(c, d) ==
  /\ c # d
  /\ calls[c].kind = calls[d].kind /\ calls[c].cacheKey = calls[d].cacheKey

\* the outcome the call completed with is that of its own provider calls
OwnOutcome(cl) ==
  /\ cl.pc = "returned"
       => \/ cl.primary.ok /\ cl.result = cl.primary.value
          \/ ~cl.primary.ok /\ cl.fallback.ok /\ cl.result = cl.fallback.value
  /\ cl.pc = "rejected"
       => \/ cl.fallback.error # NoError /\ cl.error = AllFailedError(cl.kind, cl.symbol)
          \/ cl.fallbackCalls = 0 /\ cl.error = cl.primary.error

\* C21 - No request coalescing: when a resolve call starts while another
\* call for the same cache key is in flight and has stored no result yet
\* (the lookup finds no entry), it calls the primary provider itself, two
\* primary calls in total; and each call completes on its own, with the
\* outcome of its own provider calls, leaving the other call as it is.
C21_NoCoalescing ==
  [][ \A c, d \in CallIds :
        /\ ( /\ Resolving(d) /\ c # d /\ ~Finished(calls[c])
             /\ calls[c].kind = calls'[d].kind
             /\ calls[c].cacheKey = calls'[d].cacheKey
             /\ ~MapHas(caches[calls[c].kind].store, calls[c].cacheKey) )
             => /\ calls'[d].pc = "awaitPrimary" /\ calls'[d].primaryCalls = 1
                /\ calls'[c].primaryCalls = 1
                /\ Progress(calls'[c]) = Progress(calls[c])
        /\ ( /\ ~Resolving(c) /\ ~Resolving(d) /\ c # d
             /\ ~calls[c].alone /\ ~Finished(calls[c]) /\ Finished(calls'[c]) )
             => /\ OwnOutcome(calls'[c])
                /\ calls'[d] = calls[d]
    ]_vars

\* two concurrent calls for the same key: each called the primary itself, one
\* was answered by the primary and the other by the fallback
W_C21 ==
  \E c, d \in CallIds :
    /\ SameKey(c, d) /\ ~calls[c].alone /\ ~calls[d].alone
    /\ calls[c].pc = "returned" /\ calls[d].pc = "returned"
    /\ calls[c].primaryCalls = 1 /\ calls[d].primaryCalls = 1
    /\ calls[c].primary.ok /\ calls[d].fallback.ok
    /\ calls[c].result # calls[d].result

\* the entries stored under the call's key in the cache of the call's method
EntriesFor(cs, cl) ==
  {i \in 1..Len(cs[cl.kind].store) : cs[cl.kind].store[i].key = cl.cacheKey}

\* C22 - Last-write-wins: whenever a resolve call obtains a payload from a
\* provider, other calls for the same key having stored theirs or not, the
\* cache afterwards holds exactly one entry for the key, with that call's
\* payload and the creation and expiry times of that call's set; so after
\* concurrent calls have all completed the entry is the one written last.
C22_LastWriteWins ==
  [][ \A c \in CallIds :
        ( /\ ~Finished(calls[c]) /\ calls'[c].pc = "returned" )
          => LET cl == calls'[c]
                 e  == MapGet(caches'[cl.kind].store, cl.cacheKey)
             IN  /\ Cardinality(EntriesFor(caches', cl)) = 1
                 /\ e.value = cl.result
                 /\ e.timestamp = now
                 /\ e.expiry = now + caches[cl.kind].ttl
                 /\ \A d \in CallIds \ {c} : calls'[d] = calls[d]
    ]_vars

\* two concurrent calls for the same key completed with different payloads;
\* the cache holds one entry for the key, with the payload of one of them
W_C22 ==
  \E c, d \in CallIds :
    /\ SameKey(c, d) /\ ~calls[c].alone /\ ~calls[d].alone
    /\ calls[c].pc = "returned" /\ calls[d].pc = "returned"
    /\ calls[c].primary.ok /\ calls[d].fallback.ok
    /\ calls[c].result # calls[d].result
    /\ Cardinality(EntriesFor(caches, calls[d])) = 1
    /\ Holds(caches, calls[d], calls[d].result)
    /\ ~Holds(caches, calls[c], calls[c].result)

\* C9 - Ordering of provider calls: the fallback is called only after the
\* primary's call of the same resolve call has failed; if the primary
\* succeeds with p, the fallback is never called, p is stored under the
\* cache key and p is returned.
C9_FallbackAfterPrimary ==
  [][ \A c \in CallIds :
        /\ calls'[c].fallbackCalls > 0
             => (calls'[c].primaryCalls = 1 /\ calls'[c].primary.error # NoError)
        /\ calls'[c].primary.ok
             => /\ calls'[c].fallbackCalls = 0
                /\ calls'[c].fallback = NoOutcome
                /\ calls'[c].pc = "returned"
                /\ calls'[c].result = calls'[c].primary.value
        /\ (calls[c].pc = "awaitPrimary" /\ calls'[c].primary.ok)
             => Holds(caches', calls'[c], calls'[c].primary.value)
    ]_vars

\* a call answered by the primary provider: its payload is cached and returned
W_C9 ==
  \E c \in CallIds :
    /\ calls[c].primary.ok /\ calls[c].pc = "returned"
    /\ calls[c].fallbackCalls = 0
    /\ Holds(caches, calls[c], calls[c].result)

\* C28 - Overwrite does not evict: set(k, v) for a key k that is already
\* stored replaces k's entry and removes no other key, even when the cache is
\* at capacity: the stored keys are the same before and after the call and
\* the entries of the other keys are untouched.
C28_OverwriteKeepsKeys ==
  [][ ( /\ CallOf("set")
        /\ MapHas(cache.store, last'.key) )
      => /\ MapKeys(cache'.store) = MapKeys(cache.store)
         /\ MapDelete(cache'.store, last'.key) = MapDelete(cache.store, last'.key)
    ]_vars

\* C29 - Deletes accounting: every call of del(), prune() and clear() adds to
\* stats.deletes the number of entries it removes, clear() on a cache holding
\* n entries empties the store and adds n, and no other call and no passing
\* of time changes stats.deletes; clear() leaves hits, misses and sets alone.
C29_DeletesAccounting ==
  [][ /\ (CallOf("del") \/ CallOf("prune") \/ CallOf("clear"))
           => cache'.stats.deletes
                = cache.stats.deletes + Len(cache.store) - Len(cache'.store)
      /\ ~(CallOf("del") \/ CallOf("prune") \/ CallOf("clear"))
           => cache'.stats.deletes = cache.stats.deletes
      /\ CallOf("clear")
           => /\ cache'.store = << >>
              /\ cache'.stats.deletes = cache.stats.deletes + Len(cache.store)
              /\ cache'.stats.hits = cache.stats.hits
              /\ cache'.stats.misses = cache.stats.misses
              /\ cache'.stats.sets = cache.stats.sets
    ]_vars

\* this step is the start of a getOrSet call
GetOrSetStarts == cacheService'.call.n = cacheService.call.n + 1

\* the key holds an item that has not expired at time t
Live(c, key, t) == c[key] # << >> /\ ~ItemExpired(c[key][1], t)

\* C24 - getOrSet(key, fn, ttl): when the key holds an item that has not
\* expired, whatever value a set or a getOrSet stored in it (null and the
\* other falsy values included), the stored value is returned and fn is not
\* executed; otherwise fn is executed exactly once and, when it resolves, its
\* result is stored under the key and returned.
C24_GetOrSet ==
  [][ LET old == cacheService.call
          new == cacheService'.call
      IN  /\ GetOrSetStarts
               => IF Live(cacheService.cache, new.key, now)
                    THEN /\ new.pc = "returned"
                         /\ new.result = cacheService.cache[new.key][1].value
                         /\ new.fnCalls = 0
                    ELSE /\ new.pc = "awaitFn"
                         /\ new.fnCalls = 1
          /\ (old.pc = "awaitFn" /\ new.pc = "returned")
               => /\ new.fnCalls = 1
                  /\ new.result = new.fn.value
                  /\ cacheService'.cache[new.key] # << >>
                  /\ cacheService'.cache[new.key][1].value = new.result
          /\ new.fnCalls <= 1
    ]_vars

\* C25 - getOrSet failure atomicity: when fn rejects, getOrSet rejects with
\* the error fn threw and writes nothing, and unless another call has written
\* the key in the meantime the cache holds no item for the key afterwards.
C25_GetOrSetFailure ==
  [][ LET old == cacheService.call
          new == cacheService'.call
      IN  (old.pc = "awaitFn" /\ new.pc = "rejected")
            => /\ new.error = new.fn.error
               /\ new.error # NoError
               /\ cacheService'.cache = cacheService.cache
               /\ ~new.touched => cacheService'.cache[new.key] = << >>
    ]_vars

\* what results[symbol] has to be for a resolve that has ended as cl
OutcomeOf(cl) == IF cl.pc = "returned" THEN cl.result ELSE Null

\* C26 - getPrices(symbols) and getMarketsData(symbols) never reject: the
\* call returns only when the resolve of every requested symbol has returned
\* or thrown, and its result maps every requested symbol to the payload a
\* resolve of that symbol returned, or to null when it failed, and has no
\* other property; the failure of one symbol leaves the others' entries alone.
C26_BatchNeverRejects ==
  /\ batch.pc # "rejected"
  /\ batch.error = NoError
  /\ batch.pc = "returned"
       => /\ \A i \in 1..Len(batch.symbols) :
               /\ calls[i].pc \in {"returned", "rejected"}
               /\ calls[i].kind = batch.kind
               /\ calls[i].symbol = batch.symbols[i]
          /\ \A s \in Symbols :
               LET mappers == {i \in 1..Len(batch.symbols) : batch.symbols[i] = s}
               IN  IF mappers = {}
                     THEN batch.results[s] = NotSet
                     ELSE \E i \in mappers : batch.results[s] = OutcomeOf(calls[i])

\* a call for two symbols has returned: the resolve of the first failed at
\* both providers and its entry is null, the second has its payload
W_C26 ==
  /\ batch.pc = "returned"
  /\ Len(batch.symbols) = 2
  /\ batch.symbols[1] # batch.symbols[2]
  /\ calls[1].pc = "rejected" /\ calls[1].fallbackCalls = 1
  /\ calls[2].pc = "returned" /\ Truthy(calls[2].result)
  /\ batch.results[batch.symbols[1]] = Null
  /\ batch.results[batch.symbols[2]] = calls[2].result

\* the cache keys under which the resolves store the data of a symbol
KeysOf(symbol) ==
  {CacheKey("price", symbol, NoTimeframe),
   CacheKey("marketData", symbol, NoTimeframe)}
  \cup {CacheKey("historical", symbol, HistoricalTimeframes[i]) :
          i \in 1..Len(HistoricalTimeframes)}

\* C27 - invalidateCache(symbol), in whatever case the symbol is written,
\* removes the symbol's price entry, market-data entry and historical entries
\* of the five timeframes and leaves every other entry as it was, so that a
\* getPrice / getMarketData / getHistoricalPrices for the symbol made next
\* misses the cache and calls the primary provider.
C27_InvalidateCache ==
  [][ invalidated'.n = invalidated.n + 1
      => LET symbol == invalidated'.symbol
         IN  /\ \A kind \in Kinds :
                  caches'[kind].store
                    = SelectSeq(caches[kind].store,
                                LAMBDA e : e.key \notin KeysOf(symbol))
             /\ \A kind \in Kinds, i \in 1..Len(HistoricalTimeframes) :
                  LET timeframe == IF kind = "historical"
                                     THEN HistoricalTimeframes[i] ELSE NoTimeframe
                      next == Started(caches', calls', 1, kind, symbol,
                                      timeframe, now).calls[1]
                  IN  next.pc = "awaitPrimary" /\ next.primaryCalls = 1
    ]_vars

\* invalidateCache('ETH') has removed the historical entry stored by a
\* resolve for 'eth', and the price entry of BTC is still stored
W_C27 ==
  /\ invalidated.n = 1
  /\ invalidated.symbol = "ETH"
  /\ caches.historical.stats.sets = 1
  /\ caches.historical.stats.deletes = 1
  /\ caches.historical.store = << >>
  /\ MapHas(caches.price.store, "price:btc")

\* the array of timestamps the store holds for an IP, empty when it has none
TimestampsOf(requests, ip) ==
  IF requests[ip] = << >> THEN << >> ELSE requests[ip][1]

\* the number of requests among the admitted ones that lie within the last
\* windowMs at time t
AdmittedWithin(admitted, t) ==
  Cardinality({i \in 1..Len(admitted) : t - admitted[i] < WindowMs})

\* C30 - Rate limit bound: for each client IP, whatever requests and cleanup
\* runs have happened, the requests the middleware admitted (next called
\* without an error) with timestamps in any interval shorter than windowMs
\* number at most max; and a request arriving when max admitted requests lie
\* within the last windowMs is passed to next with the 429
\* RATE_LIMIT_EXCEEDED error and adds no timestamp for the IP.
C30_RateLimitBound ==
  [][ /\ \A ip \in Ips :
           LET admitted == limiter'.admitted[ip]
           IN  \A i, j \in 1..Len(admitted) :
                 (i <= j /\ admitted[j] - admitted[i] < WindowMs)
                   => j - i + 1 <= RateMax
      /\ limiter'.last.n = limiter.last.n + 1
           => LET ip == limiter'.last.ip
              IN  AdmittedWithin(limiter.admitted[ip], now) >= RateMax
                    => /\ Len(limiter'.last.nextArg) = 1
                       /\ limiter'.last.nextArg[1].statusCode = 429
                       /\ limiter'.last.nextArg[1].code = "RATE_LIMIT_EXCEEDED"
                       /\ limiter'.admitted = limiter.admitted
                       /\ TimestampsOf(limiter'.ipRequests, ip)
                            = TimestampsOf(limiter.ipRequests, ip)
    ]_vars

\* an IP that had max requests admitted, saw one refused with the 429 error
\* and, the window having passed, has now been admitted again
W_C30 ==
  \E ip \in Ips :
    /\ Len(limiter.admitted[ip]) = RateMax + 1
    /\ \A other \in Ips \ {ip} : limiter.admitted[other] = << >>
    /\ limiter.last.ip = ip
    /\ limiter.last.n = RateMax + 2
    /\ limiter.last.nextArg = << >>
    /\ limiter.last.at = now
    /\ AdmittedWithin(limiter.admitted[ip], now) = 1
====
